---- MODULE Spec2Model ----
(***************************************************************************)
(* Model of the MCP tool handlers of api/mcp/server.ts: fetch_url_content, *)
(* search and searchGoogleFlights.  One invocation at a time is followed   *)
(* from the call of the handler, through its awaits (the outbound fetch    *)
(* and the read of the response body), to the envelope it returns.         *)
(*                                                                         *)
(* JavaScript values are records tagged with their typeof; strings are     *)
(* TLA+ strings, so template literals are concatenations and "contains"    *)
(* is substring search.                                                    *)
(***************************************************************************)
EXTENDS Integers, Sequences, FiniteSets, TLC

VARIABLES pc, tool, params, request, calls, response, body, result, stack

vars == <<pc, tool, params, request, calls, response, body, result, stack>>

(***************************************************************************)
(* Bounds of the model.                                                    *)
(***************************************************************************)
\* at most this many optional fields are present in a fetch_url_content or
\* search parameter set
MaxPresent == 2
\* at most this many pass-through fields (fields no cross-field rule reads)
\* are present in a searchGoogleFlights parameter set
MaxPassThrough == 1

(***************************************************************************)
(* JavaScript values.                                                      *)
(***************************************************************************)
Undefined == [t |-> "undefined"]
Str(s) == [t |-> "string", v |-> s]
Bool(b) == [t |-> "boolean", v |-> b]
Num(n) == [t |-> "number", v |-> n]
Arr(a) == [t |-> "object", v |-> a]

typeof(x) == x.t

\* ToBoolean: the test of `if (x)`, `x && y`, `!x`
Truthy(x) ==
  CASE x.t = "undefined" -> FALSE
    [] x.t = "boolean" -> x.v
    [] x.t = "string" -> x.v # ""
    [] x.t = "number" -> x.v # 0
    [] x.t = "object" -> TRUE

Digit(d) == SubSeq("0123456789", d + 1, d + 1)

RECURSIVE NatToStr(_)
NatToStr(n) == IF n < 10 THEN Digit(n) ELSE NatToStr(n \div 10) \o Digit(n % 10)

\* String(n), n.toString() for an integer n
IntToStr(n) == IF n < 0 THEN "-" \o NatToStr(0 - n) ELSE NatToStr(n)

\* String(x), x.toString(), `${x}`
JsString(x) ==
  CASE x.t = "undefined" -> "undefined"
    [] x.t = "boolean" -> (IF x.v THEN "true" ELSE "false")
    [] x.t = "string" -> x.v
    [] x.t = "number" -> IntToStr(x.v)

\* s.includes(t)
Contains(s, t) ==
  \E i \in 1..(Len(s) - Len(t) + 1) : SubSeq(s, i, i + Len(t) - 1) = t

\* s.startsWith(t)
StartsWith(s, t) == Len(s) >= Len(t) /\ SubSeq(s, 1, Len(t)) = t

Range(f) == {f[i] : i \in DOMAIN f}

(***************************************************************************)
(* Characters. A string holds the code points U+0020..U+007E but U+0060,   *)
(* U+00A0..U+00FF, and tab, line feed, form feed and carriage return.      *)
(***************************************************************************)
\* the characters of the codes 32..95, in order
Ascii == " !\"#$%&'()*+,-./0123456789:;<=>?@ABCDEFGHIJKLMNOPQRSTUVWXYZ[\\]^_"

\* the characters of the codes 97..126, in order
AsciiLower == "abcdefghijklmnopqrstuvwxyz{|}~"

\* the characters of the codes 160..255, in order
Latin1 == " ¡¢£¤¥¦§¨©ª«¬­®¯°±²³´µ¶·¸¹º»¼½¾¿ÀÁÂÃÄÅÆÇÈÉÊËÌÍÎÏÐÑÒÓÔÕÖ×ØÙÚÛÜÝÞßàáâãäåæçèéêëìíîïðñòóôõö÷øùúûüýþÿ"

\* <<character, code>>
CharTable ==
  {<<SubSeq(Ascii, i, i), 31 + i>> : i \in 1..Len(Ascii)}
    \cup {<<SubSeq(AsciiLower, i, i), 96 + i>> : i \in 1..Len(AsciiLower)}
    \cup {<<SubSeq(Latin1, i, i), 159 + i>> : i \in 1..Len(Latin1)}
    \cup {<<"\t", 9>>, <<"\n", 10>>, <<"\f", 12>>, <<"\r", 13>>}

\* c.charCodeAt(0)
CodeOf == [c \in {e[1] : e \in CharTable} |-> (CHOOSE e \in CharTable : e[1] = c)[2]]

\* String.fromCharCode(n)
CharOf == [n \in {e[2] : e \in CharTable} |-> (CHOOSE e \in CharTable : e[2] = n)[1]]

HexUpper == "0123456789ABCDEF"

\* the two hexadecimal digits of a byte
Hex2(b) ==
  SubSeq(HexUpper, (b \div 16) + 1, (b \div 16) + 1) \o SubSeq(HexUpper, (b % 16) + 1, (b % 16) + 1)

\* the value of a hexadecimal digit
HexValue(c) ==
  LET h == "0123456789ABCDEFabcdef"
      i == CHOOSE j \in 1..Len(h) : SubSeq(h, j, j) = c
  IN IF i <= 16 THEN i - 1 ELSE i - 7

IsHex(c) == Len(c) = 1 /\ \E j \in 1..22 : SubSeq("0123456789ABCDEFabcdef", j, j) = c

(***************************************************************************)
(* URLSearchParams: a list of <<name, value>> pairs.                       *)
(***************************************************************************)
\* the characters application/x-www-form-urlencoded leaves as they are
Unreserved ==
  LET u == "ABCDEFGHIJKLMNOPQRSTUVWXYZabcdefghijklmnopqrstuvwxyz0123456789*-._"
  IN {SubSeq(u, i, i) : i \in 1..Len(u)}

\* the bytes of the UTF-8 encoding of the code point n, each percent-encoded
PercentBytes(n) ==
  IF n < 128 THEN "%" \o Hex2(n)
  ELSE "%" \o Hex2(192 + (n \div 64)) \o "%" \o Hex2(128 + (n % 64))

\* what the serializer writes for every other character: "+" for the space,
\* the percent-encoded bytes for the rest
PercentTable ==
  [c \in (DOMAIN CodeOf) \ Unreserved |->
     IF c = " " THEN "+" ELSE PercentBytes(CodeOf[c])]

RECURSIVE FormEncode(_)
FormEncode(s) ==
  IF Len(s) = 0 THEN ""
  ELSE IF Len(s) = 1 THEN (IF s \in Unreserved THEN s ELSE PercentTable[s])
  ELSE LET h == Len(s) \div 2
       IN FormEncode(SubSeq(s, 1, h)) \o FormEncode(SubSeq(s, h + 1, Len(s)))

\* URLSearchParams.prototype.append
Append_(sp, name, value) == Append(sp, <<name, value>>)

\* URLSearchParams.prototype.set: the first pair of that name takes the
\* value, the other pairs of that name go; without one, the pair is appended
ParamsSet(sp, name, value) ==
  IF \E i \in DOMAIN sp : sp[i][1] = name
  THEN LET first == CHOOSE i \in DOMAIN sp :
                      sp[i][1] = name /\ \A j \in 1..(i - 1) : sp[j][1] # name
           keep(i) == sp[i][1] # name \/ i = first
           RECURSIVE walk(_)
           walk(i) ==
             IF i > Len(sp) THEN <<>>
             ELSE (IF ~keep(i) THEN <<>>
                   ELSE IF i = first THEN << <<name, value>> >> ELSE <<sp[i]>>)
                    \o walk(i + 1)
       IN walk(1)
  ELSE Append(sp, <<name, value>>)

\* URLSearchParams.prototype.toString
RECURSIVE ParamsToString(_)
ParamsToString(sp) ==
  IF sp = <<>> THEN ""
  ELSE FormEncode(sp[1][1]) \o "=" \o FormEncode(sp[1][2])
         \o (IF Len(sp) > 1 THEN "&" \o ParamsToString(Tail(sp)) ELSE "")

\* the values of the pairs named `name`, in order (getAll)
RECURSIVE ParamsGetAll(_, _)
ParamsGetAll(sp, name) ==
  IF sp = <<>> THEN <<>>
  ELSE (IF sp[1][1] = name THEN <<sp[1][2]>> ELSE <<>>) \o ParamsGetAll(Tail(sp), name)

(***************************************************************************)
(* Completions of a step of an async function.                             *)
(***************************************************************************)
Return(v) == [kind |-> "return", value |-> v]
Throw(e) == [kind |-> "throw", error |-> e]
Await == [kind |-> "await"]
\* a promise that has not settled yet
Pending == [kind |-> "pending"]

\* Response.ok
ResponseOk(r) == r.status >= 200 /\ r.status <= 299

(***************************************************************************)
(* Result envelopes and the plain object that holds the request headers.   *)
(***************************************************************************)
\* { content: [{ type: "text", text }] }, the text as its UTF-16 code units
TextResult(text) == [content |-> <<[type |-> "text", text |-> text]>>]

\* the error text in an envelope without the flag
ErrorResult_unflagged(text) == [content |-> <<[type |-> "text", text |-> text]>>]

\* { content: [{ type: "text", text }], isError: true }
ErrorResult(text) ==
  [content |-> <<[type |-> "text", text |-> text]>>, isError |-> TRUE]

IsError(env) == "isError" \in DOMAIN env /\ env.isError

\* const requestHeaders: HeadersInit = {}
NoHeaders == [n \in {} |-> ""]

\* requestHeaders[name] = value
SetHeader(h, name, value) ==
  [n \in (DOMAIN h) \cup {name} |-> IF n = name THEN value ELSE h[n]]

\* if (cond) requestHeaders[name] = value
HeaderIf(h, cond, name, value) == IF cond THEN SetHeader(h, name, value) ELSE h

(***************************************************************************)
(* Natural numbers of any size: the limbs of the base 10000, the least     *)
(* significant first, the highest limb not 0; zero is << >>.               *)
(***************************************************************************)
Limb == 10000

\* the highest index in lo..hi of a limb that is not 0, or 0
RECURSIVE BigTop(_, _, _)
BigTop(a, lo, hi) ==
  IF lo > hi THEN 0
  ELSE IF lo = hi THEN (IF a[lo] # 0 THEN lo ELSE 0)
  ELSE LET mid == (lo + hi) \div 2
           top == BigTop(a, mid + 1, hi)
       IN IF top # 0 THEN top ELSE BigTop(a, lo, mid)

BigStrip(a) == SubSeq(a, 1, BigTop(a, 1, Len(a)))

\* the number a sequence of decimal digits, the most significant first, writes
BigFromDigits(ds) ==
  LET n == Len(ds)
      g(k) == IF k >= 1 THEN ds[k] ELSE 0
  IN BigStrip([i \in 1..((n + 3) \div 4) |->
                 LET p == n - 4 * i + 1
                 IN g(p) * 1000 + g(p + 1) * 100 + g(p + 2) * 10 + g(p + 3)])

BigLimb(a, i) == IF i <= Len(a) THEN a[i] ELSE 0

RECURSIVE BigCmpSeg(_, _, _, _)
BigCmpSeg(a, b, lo, hi) ==
  IF lo = hi
  THEN (IF a[lo] < b[lo] THEN 0 - 1 ELSE IF a[lo] > b[lo] THEN 1 ELSE 0)
  ELSE LET mid == (lo + hi) \div 2
           top == BigCmpSeg(a, b, mid + 1, hi)
       IN IF top # 0 THEN top ELSE BigCmpSeg(a, b, lo, mid)

\* -1, 0 or 1 as a is less than, equal to or greater than b
BigCmp(a, b) ==
  IF Len(a) < Len(b) THEN 0 - 1
  ELSE IF Len(a) > Len(b) THEN 1
  ELSE IF a = <<>> THEN 0
  ELSE BigCmpSeg(a, b, 1, Len(a))

\* the limbs lo..hi of a * k + carry, and the carry out of them
RECURSIVE BigMulSeg(_, _, _, _, _)
BigMulSeg(a, k, lo, hi, carry) ==
  IF lo = hi
  THEN LET t == a[lo] * k + carry
       IN [limbs |-> <<t % Limb>>, carry |-> t \div Limb]
  ELSE LET mid == (lo + hi) \div 2
           low == BigMulSeg(a, k, lo, mid, carry)
           high == BigMulSeg(a, k, mid + 1, hi, low.carry)
       IN [limbs |-> low.limbs \o high.limbs, carry |-> high.carry]

\* a * k, for 0 <= k <= 65536
BigMulSmall(a, k) ==
  IF k = 0 \/ a = <<>> THEN <<>>
  ELSE LET p == BigMulSeg(a, k, 1, Len(a), 0)
       IN BigStrip(p.limbs \o <<p.carry % Limb, p.carry \div Limb>>)

\* the limbs lo..hi of a + b + carry, and the carry out of them
RECURSIVE BigAddSeg(_, _, _, _, _)
BigAddSeg(a, b, lo, hi, carry) ==
  IF lo = hi
  THEN LET t == BigLimb(a, lo) + BigLimb(b, lo) + carry
       IN [limbs |-> <<t % Limb>>, carry |-> t \div Limb]
  ELSE LET mid == (lo + hi) \div 2
           low == BigAddSeg(a, b, lo, mid, carry)
           high == BigAddSeg(a, b, mid + 1, hi, low.carry)
       IN [limbs |-> low.limbs \o high.limbs, carry |-> high.carry]

BigAdd(a, b) ==
  LET n == IF Len(a) > Len(b) THEN Len(a) ELSE Len(b)
      s == BigAddSeg(a, b, 1, n, 0)
  IN IF n = 0 THEN <<>> ELSE BigStrip(s.limbs \o <<s.carry>>)

\* the limbs lo..hi of a - b - borrow, and the borrow out of them
RECURSIVE BigSubSeg(_, _, _, _, _)
BigSubSeg(a, b, lo, hi, borrow) ==
  IF lo = hi
  THEN LET t == a[lo] - BigLimb(b, lo) - borrow
       IN [limbs |-> <<IF t < 0 THEN t + Limb ELSE t>>, borrow |-> IF t < 0 THEN 1 ELSE 0]
  ELSE LET mid == (lo + hi) \div 2
           low == BigSubSeg(a, b, lo, mid, borrow)
           high == BigSubSeg(a, b, mid + 1, hi, low.borrow)
       IN [limbs |-> low.limbs \o high.limbs, borrow |-> high.borrow]

\* a - b, for a >= b
BigSub(a, b) == IF a = <<>> THEN <<>> ELSE BigStrip(BigSubSeg(a, b, 1, Len(a), 0).limbs)

\* a * 10000^n
BigShift(a, n) == IF a = <<>> THEN <<>> ELSE [i \in 1..n |-> 0] \o a

\* a * 10^p
BigMulPow10(a, p) == BigShift(BigMulSmall(a, 10 ^ (p % 4)), p \div 4)

\* a * 2^j
RECURSIVE BigMulPow2(_, _)
BigMulPow2(a, j) ==
  IF j <= 16 THEN BigMulSmall(a, 2 ^ j)
  ELSE LET half == BigMulPow2(a, j \div 2)
       IN IF half = <<>> THEN <<>> ELSE BigMulPow2(half, j - (j \div 2))

\* the number of decimal digits of a
BigDigits(a) ==
  IF a = <<>> THEN 0
  ELSE LET top == a[Len(a)]
       IN 4 * (Len(a) - 1)
            + (IF top >= 1000 THEN 4 ELSE IF top >= 100 THEN 3 ELSE IF top >= 10 THEN 2 ELSE 1)

\* the greatest q in lo..hi with d * q <= r, given d * lo <= r
RECURSIVE BigQuotient(_, _, _, _)
BigQuotient(d, r, lo, hi) ==
  IF lo = hi THEN lo
  ELSE LET mid == (lo + hi + 1) \div 2
       IN IF BigCmp(BigMulSmall(d, mid), r) <= 0
          THEN BigQuotient(d, r, mid, hi)
          ELSE BigQuotient(d, r, lo, mid - 1)

(***************************************************************************)
(* Numbers: IEEE 754 double precision. A finite double that is not zero is *)
(* m * 2^e with m < 2^53, held as the shortest decimal digits that read    *)
(* back as that double and the place of the decimal point:                 *)
(* 0.d1...dk * 10^point.                                                   *)
(***************************************************************************)
Two52 == <<496, 2737, 5996, 4503>>
Two53 == <<992, 5474, 1992, 9007>>

MinExponent == 0 - 1074
MaxExponent == 971

DoubleZero == [class |-> "zero"]
DoubleInfinity(neg) == [class |-> "infinite", neg |-> neg]

\* long division: the limbs i..0 of the quotient of r by d, before the limbs q
RECURSIVE BigDivideFrom(_, _, _, _)
BigDivideFrom(r, d, i, q) ==
  IF i < 0 THEN [quot |-> BigStrip(q), rem |-> r]
  ELSE LET limb == BigQuotient(BigShift(d, i), r, 0, Limb - 1)
       IN BigDivideFrom(BigSub(r, BigMulSmall(BigShift(d, i), limb)), d, i - 1, <<limb>> \o q)

\* the quotient of n by d, less than 10000^4, with the remainder
BigDivide(n, d) == BigDivideFrom(n, d, 3, <<>>)

\* the binary exponent at which the quotient n / d has at most 53 bits
RECURSIVE BinaryExponent(_, _, _)
BinaryExponent(n, d, e) ==
  IF BigCmp(n, BigMulPow2(d, 53)) >= 0
  THEN BinaryExponent(n, BigMulSmall(d, 2), e + 1)
  ELSE [d |-> d, e |-> e]

\* m * 2^e as a double: its significand and exponent, or zero, or infinity
Significand(m, e) ==
  IF m = <<>> THEN [class |-> "zero"]
  ELSE IF (IF m = Two53 THEN e + 1 ELSE e) > MaxExponent THEN [class |-> "infinite"]
  ELSE IF m = Two53 THEN [class |-> "finite", m |-> Two52, e |-> e + 1]
  ELSE [class |-> "finite", m |-> m, e |-> e]

\* the quotient rounded to the nearest integer, a tie to the even one
RoundHalfEven(quot, rem, d, e) ==
  LET half == BigCmp(BigMulSmall(rem, 2), d)
  IN Significand(IF half > 0 \/ (half = 0 /\ quot # <<>> /\ quot[1] % 2 = 1)
                 THEN BigAdd(quot, <<1>>) ELSE quot,
                 e)

RoundedQuotient(qr, d, e) == RoundHalfEven(qr.quot, qr.rem, d, e)

\* the double nearest to n / (d * 2^e), for n / d < 2^53
NearestQuotient(n, at) == RoundedQuotient(BigDivide(n, at.d), at.d, at.e)

\* the double nearest to n0 / d0, whose binary logarithm is at least log2
NearestRatio(n0, d0, log2) ==
  LET e0 == IF log2 - 52 < MinExponent THEN MinExponent ELSE log2 - 52
      n == IF e0 < 0 THEN BigMulPow2(n0, 0 - e0) ELSE n0
  IN NearestQuotient(n, BinaryExponent(n, IF e0 > 0 THEN BigMulPow2(d0, e0) ELSE d0, e0))

\* a lower bound of the binary logarithm of a ratio of at least 10^x
Log2Below(x) == ((x * (IF x >= 0 THEN 33219 ELSE 33220)) \div 10000) - 1

NearestOf(n0, d0) == NearestRatio(n0, d0, Log2Below(BigDigits(n0) - BigDigits(d0) - 1))

\* the double nearest to digits * 10^exp10, ties to the even significand:
\* its significand m and exponent e, or zero, or infinity
NearestDouble(digits, exp10) ==
  NearestOf(BigMulPow10(BigFromDigits(digits), IF exp10 > 0 THEN exp10 ELSE 0),
            BigMulPow10(<<1>>, IF exp10 < 0 THEN 0 - exp10 ELSE 0))

\* the last digit, or the digits that follow `digit`; r / den is what is left
\* of the value after it, lo / den and hi / den the distances to the middles
RECURSIVE ShortestFrom(_, _, _, _, _, _)
ShortestNext(r, den, lo, hi, even, digits, digit) ==
  LET roomMinus == IF even THEN BigCmp(r, lo) <= 0 ELSE BigCmp(r, lo) < 0
      roomPlus == IF even THEN BigCmp(BigAdd(r, hi), den) >= 0
                  ELSE BigCmp(BigAdd(r, hi), den) > 0
      half == BigCmp(BigMulSmall(r, 2), den)
      up == IF roomMinus /\ roomPlus
            THEN half > 0 \/ (half = 0 /\ digit % 2 = 1)
            ELSE roomPlus
  IN IF ~roomMinus /\ ~roomPlus
     THEN ShortestFrom(r, den, lo, hi, even, Append(digits, digit))
     ELSE Append(digits, IF up THEN digit + 1 ELSE digit)

ShortestDigit(n10, den, lo, hi, even, digits, digit) ==
  ShortestNext(BigSub(n10, BigMulSmall(den, digit)), den, lo, hi, even, digits, digit)

ShortestTimes10(n10, den, lo, hi, even, digits) ==
  ShortestDigit(n10, den, lo, hi, even, digits, BigQuotient(den, n10, 0, 9))

\* the digits after `digits`; num / den is what is left of the value
ShortestFrom(num, den, dminus, dplus, even, digits) ==
  ShortestTimes10(BigMulSmall(num, 10), den, BigMulSmall(dminus, 10),
                  BigMulSmall(dplus, 10), even, digits)

\* the digits of num / den, which is less than 1 and at least 1/10 once the
\* decimal point is moved by `point`
ShortestScaled(num, den, dminus, dplus, even, inRange, point) ==
  [digits |-> ShortestFrom(num, IF inRange THEN BigMulSmall(den, 10) ELSE den,
                           dminus, dplus, even, <<>>),
   point |-> IF inRange THEN point + 1 ELSE point]

ShortestInRange(num, den, dminus, dplus, even, high, point) ==
  ShortestScaled(num, den, dminus, dplus, even, IF even THEN high >= 0 ELSE high > 0, point)

ShortestPoint(num, den, dminus, dplus, even, c) ==
  ShortestInRange(num, den, dminus, dplus, even, BigCmp(BigAdd(num, dplus), den), c)

\* num / den with 10^c taken out
ShortestPower(num, den, dminus, dplus, even, c) ==
  ShortestPoint(BigMulPow10(num, IF c < 0 THEN 0 - c ELSE 0),
                BigMulPow10(den, IF c > 0 THEN c ELSE 0),
                BigMulPow10(dminus, IF c < 0 THEN 0 - c ELSE 0),
                BigMulPow10(dplus, IF c < 0 THEN 0 - c ELSE 0), even, c)

\* the value num / den and the distances dminus / den and dplus / den to the
\* middles between it and the doubles next to it
ShortestBetween(num, den, dminus, dplus, even) ==
  ShortestPower(num, den, dminus, dplus, even,
                BigDigits(BigAdd(num, dplus)) - BigDigits(den))

\* the shortest digits that read back as m * 2^e
ShortestDigits(m, e) ==
  LET \* the double below is nearer than the double above
      w == IF m = Two52 /\ e > MinExponent THEN 2 ELSE 1
      unit == IF e >= 0 THEN BigMulPow2(<<1>>, e) ELSE <<1>>
  IN ShortestBetween(
       BigMulSmall(IF e >= 0 THEN BigMulPow2(m, e + 1) ELSE BigMulSmall(m, 2), w),
       BigMulSmall(IF e >= 0 THEN <<2>> ELSE BigMulPow2(<<1>>, 1 - e), w),
       unit, BigMulSmall(unit, w), m[1] % 2 = 0)

DoubleOfDigits(neg, s) ==
  [class |-> "finite", neg |-> neg, digits |-> s.digits, point |-> s.point]

DoubleNear(neg, near) ==
  IF near.class = "zero" THEN DoubleZero
  ELSE IF near.class = "infinite" THEN DoubleInfinity(neg)
  ELSE DoubleOfDigits(neg, ShortestDigits(near.m, near.e))

\* the Number a numeric literal denotes: its digits without the zeros at
\* either end, times 10^exp10
StringToDouble(neg, digits, exp10) ==
  IF digits = <<>> THEN DoubleZero
  ELSE IF Len(digits) + exp10 > 310 THEN DoubleInfinity(neg)
  ELSE IF Len(digits) + exp10 < 0 - 330 THEN DoubleZero
  ELSE DoubleNear(neg, NearestDouble(digits, exp10))

\* the decimal digits of a sequence of digits
DigitsToStr(ds) ==
  LET RECURSIVE from(_, _)
      from(lo, hi) ==
        IF lo > hi THEN ""
        ELSE IF lo = hi THEN Digit(ds[lo])
        ELSE from(lo, (lo + hi) \div 2) \o from(((lo + hi) \div 2) + 1, hi)
  IN from(1, Len(ds))

Zeros(n) == DigitsToStr([i \in 1..n |-> 0])

\* Number.prototype.toString of a finite double
NumberToString(x) ==
  IF x.class = "zero" THEN "0"
  ELSE LET k == Len(x.digits)
           n == x.point
           s == DigitsToStr(x.digits)
           text ==
             IF k <= n /\ n <= 21 THEN s \o Zeros(n - k)
             ELSE IF 0 < n /\ n <= 21 THEN SubSeq(s, 1, n) \o "." \o SubSeq(s, n + 1, k)
             ELSE IF 0 - 6 < n /\ n <= 0 THEN "0." \o Zeros(0 - n) \o s
             ELSE (IF k = 1 THEN s ELSE SubSeq(s, 1, 1) \o "." \o SubSeq(s, 2, k))
                    \o "e" \o (IF n - 1 < 0 THEN "-" ELSE "+")
                    \o NatToStr(IF n - 1 < 0 THEN 1 - n ELSE n - 1)
       IN (IF x.neg THEN "-" ELSE "") \o text

(***************************************************************************)
(* JSON.parse and JSON.stringify(value, null, 2). A JSON string is the     *)
(* sequence of its UTF-16 code units; a number is a double. The messages   *)
(* of the SyntaxError are those of V8.                                     *)
(***************************************************************************)
CharAt(s, i) == IF i >= 1 /\ i <= Len(s) THEN SubSeq(s, i, i) ELSE ""

IsDigit(c) == c # "" /\ Contains("0123456789", c)

IsWs(c) == c \in {" ", "\t", "\n", "\r"}

\* the first position from i on whose character is not in the class, or
\* Len(s) + 1
FirstNot(s, i, In(_)) ==
  CHOOSE j \in i..(Len(s) + 1) :
    /\ (j > Len(s) \/ ~In(CharAt(s, j)))
    /\ \A k \in i..(j - 1) : In(CharAt(s, k))

SkipWs(s, i) == FirstNot(s, i, IsWs)

\* the code units of the characters i..j of s
CodeUnits(s, i, j) == [x \in 1..(j - i + 1) |-> CodeOf[CharAt(s, i + x - 1)]]

\* a string of the program whose code units may be any: the sequence of its
\* UTF-16 code units
Units(s) == CodeUnits(s, 1, Len(s))

\* the first position at which s, read from i, departs from the literal w
Mismatch(s, i, w) ==
  LET at == {j \in 1..Len(w) : CharAt(s, i + j - 1) # CharAt(w, j)}
  IN IF at = {} THEN 0 ELSE i - 1 + (CHOOSE j \in at : \A k \in at : j <= k)

\* a failure at pos; `why` is the message, "" where the token at pos tells it
JsonOk(v, pos) == [ok |-> TRUE, val |-> v, pos |-> pos]
JsonFail(pos, why) == [ok |-> FALSE, pos |-> pos, why |-> why]

JsonLiteral(s, i, w) ==
  LET m == Mismatch(s, i, w)
  IN IF m = 0 THEN JsonOk([k |-> "literal", v |-> w], i + Len(w)) ELSE JsonFail(m, "")

\* a character a string holds as it is written
IsPlain(c) == c \notin {"\"", "\\", "\t", "\n", "\f", "\r"}

\* the code unit of the escape \c
EscapeUnit(c) ==
  CASE c = "\"" -> 34
    [] c = "\\" -> 92
    [] c = "/" -> 47
    [] c = "b" -> 8
    [] c = "f" -> 12
    [] c = "n" -> 10
    [] c = "r" -> 13
    [] c = "t" -> 9

\* the number of backslashes that stand in a row just before the position k
BackslashesBefore(s, k) ==
  LET m == CHOOSE m \in 0..(k - 1) :
             CharAt(s, m) # "\\" /\ \A l \in (m + 1)..(k - 1) : CharAt(s, l) = "\\"
  IN k - 1 - m

\* the character at k is the one that a backslash escapes
IsEscaped(s, k) == CharAt(s, k - 1) = "\\" /\ BackslashesBefore(s, k) % 2 = 1

\* the backslash at k starts no escape of JSON
IsBadEscape(s, k) ==
  IF CharAt(s, k + 1) = "u" THEN \E h \in (k + 2)..(k + 5) : ~IsHex(CharAt(s, h))
  ELSE CharAt(s, k + 1) = "" \/ ~Contains("\"\\/bfnrt", CharAt(s, k + 1))

\* the scan of a string ends at k: the end of s, the closing quote, a control
\* character or a bad escape
IsStringStop(s, k) ==
  IF IsEscaped(s, k) THEN FALSE
  ELSE IF CharAt(s, k) = "\\" THEN IsBadEscape(s, k)
  ELSE k > Len(s) \/ ~IsPlain(CharAt(s, k))

\* where the scan of the string whose characters start at i ends
JsonStringStop(s, i) ==
  CHOOSE j \in i..(Len(s) + 1) :
    IsStringStop(s, j) /\ \A k \in i..(j - 1) : ~IsStringStop(s, k)

\* the code units that the character at k gives to the string whose
\* characters start at lo: none for a backslash and for the digits of \uXXXX
JsonStringUnit(s, lo, k) ==
  IF IsEscaped(s, k)
  THEN IF CharAt(s, k) = "u"
       THEN <<4096 * HexValue(CharAt(s, k + 1)) + 256 * HexValue(CharAt(s, k + 2))
                + 16 * HexValue(CharAt(s, k + 3)) + HexValue(CharAt(s, k + 4))>>
       ELSE <<EscapeUnit(CharAt(s, k))>>
  ELSE IF CharAt(s, k) = "\\" THEN <<>>
  ELSE IF \E d \in 1..4 : k - d >= lo /\ CharAt(s, k - d) = "u" /\ IsEscaped(s, k - d)
  THEN <<>>
  ELSE <<CodeOf[CharAt(s, k)]>>

RECURSIVE JsonStringUnits(_, _, _, _)
JsonStringUnits(s, lo, a, b) ==
  IF a > b THEN <<>>
  ELSE IF a = b THEN JsonStringUnit(s, lo, a)
  ELSE JsonStringUnits(s, lo, a, (a + b) \div 2)
         \o JsonStringUnits(s, lo, ((a + b) \div 2) + 1, b)

\* the string whose characters start at i and whose scan ends at j
JsonStringEnd(s, i, j) ==
  IF CharAt(s, j) = "" THEN JsonFail(j, "Unterminated string in JSON")
  ELSE IF CharAt(s, j) = "\""
  THEN JsonOk([k |-> "string", v |-> JsonStringUnits(s, i, i, j - 1)], j + 1)
  ELSE IF CharAt(s, j) # "\\"
  THEN JsonFail(j, "Bad control character in string literal in JSON")
  \* the text ends after the backslash: the end of the input is the token
  ELSE IF CharAt(s, j + 1) = "" THEN JsonFail(j + 1, "")
  ELSE IF CharAt(s, j + 1) # "u" THEN JsonFail(j + 1, "Bad escaped character in JSON")
  ELSE JsonFail(CHOOSE h \in (j + 2)..(j + 5) :
                  ~IsHex(CharAt(s, h)) /\ \A l \in (j + 2)..(h - 1) : IsHex(CharAt(s, l)),
                "Bad Unicode escape in JSON")

\* the string that starts at i, where the opening quote is
JsonStringAt(s, i) == JsonStringEnd(s, i + 1, JsonStringStop(s, i + 1))

\* the digits of the characters i..j of s
DigitsOf(s, i, j) == [x \in 1..(j - i + 1) |-> CodeOf[CharAt(s, i + x - 1)] - 48]

\* INT_MAX / 2: where the runtime stops reading an exponent. A text long
\* enough for its digits to make up for such an exponent is longer than a
\* string can be
ExponentLimit == 1073741823

\* the natural number a sequence of digits writes, or ExponentLimit if it is
\* not less
SmallNat(ds) ==
  LET nz == {i \in DOMAIN ds : ds[i] # 0}
      first == IF nz = {} THEN Len(ds) + 1 ELSE CHOOSE i \in nz : \A k \in nz : i <= k
      sig == SubSeq(ds, first, Len(ds))
      limit == <<1, 0, 7, 3, 7, 4, 1, 8, 2, 3>>
      RECURSIVE value(_)
      value(n) == IF n = 0 THEN 0 ELSE 10 * value(n - 1) + sig[n]
  IN IF Len(sig) > Len(limit) THEN ExponentLimit
     ELSE IF /\ Len(sig) = Len(limit)
             /\ \E i \in DOMAIN sig : sig[i] > limit[i] /\ \A j \in 1..(i - 1) : sig[j] = limit[j]
     THEN ExponentLimit
     ELSE value(Len(sig))

\* the double of the digits `ds` times 10^exp10
DoubleOf(neg, ds, exp10) ==
  LET nz == {i \in DOMAIN ds : ds[i] # 0}
      first == CHOOSE i \in nz : \A k \in nz : i <= k
      last == CHOOSE i \in nz : \A k \in nz : k <= i
  IN IF nz = {} THEN DoubleZero
     ELSE StringToDouble(neg, SubSeq(ds, first, last), exp10 + (Len(ds) - last))

\* the parts of a numeric literal: the integer is s[d..int-1], the fraction
\* s[int+1..frac-1], the exponent s[sign..end-1]
JsonSpan(d, int, frac, sign, end) ==
  [ok |-> TRUE, d |-> d, int |-> int, frac |-> frac, sign |-> sign, end |-> end]

JsonExponentEnd(d, int, frac, sign, end) ==
  IF end = sign THEN JsonFail(sign, "Exponent part is missing a number in JSON")
  ELSE JsonSpan(d, int, frac, sign, end)

JsonExponentSign(s, d, int, frac, sign) ==
  JsonExponentEnd(d, int, frac, sign, FirstNot(s, sign, IsDigit))

JsonExponent(s, d, int, frac) ==
  IF CharAt(s, frac) \notin {"e", "E"} THEN JsonSpan(d, int, frac, frac, frac)
  ELSE JsonExponentSign(s, d, int, frac,
                        IF CharAt(s, frac + 1) \in {"+", "-"} THEN frac + 2 ELSE frac + 1)

JsonFractionEnd(d, int, frac) ==
  IF frac = int + 1 THEN JsonFail(frac, "Unterminated fractional number in JSON")
  ELSE [ok |-> TRUE, d |-> d, int |-> int, frac |-> frac]

JsonFraction(s, d, int) ==
  IF CharAt(s, int) # "." THEN [ok |-> TRUE, d |-> d, int |-> int, frac |-> int]
  ELSE JsonFractionEnd(d, int, FirstNot(s, int + 1, IsDigit))

JsonInteger(s, d) ==
  IF ~IsDigit(CharAt(s, d)) THEN JsonFail(d, "No number after minus sign in JSON")
  ELSE IF CharAt(s, d) = "0" /\ IsDigit(CharAt(s, d + 1)) THEN JsonFail(d + 1, "")
  ELSE JsonFraction(s, d, IF CharAt(s, d) = "0" THEN d + 1 ELSE FirstNot(s, d, IsDigit))

JsonMantissa(s, m) == IF m.ok THEN JsonExponent(s, m.d, m.int, m.frac) ELSE m

\* the power of ten of the exponent part
JsonPower(s, span) ==
  IF span.end = span.frac THEN 0
  ELSE IF CharAt(s, span.frac + 1) = "-"
       THEN 0 - SmallNat(DigitsOf(s, span.sign, span.end - 1))
  ELSE SmallNat(DigitsOf(s, span.sign, span.end - 1))

JsonNumberOf(s, i, span) ==
  IF ~span.ok THEN span
  ELSE JsonOk([k |-> "number",
               v |-> DoubleOf(CharAt(s, i) = "-",
                              DigitsOf(s, span.d, span.int - 1)
                                \o DigitsOf(s, span.int + 1, span.frac - 1),
                              JsonPower(s, span)
                                - (IF span.frac > span.int THEN span.frac - span.int - 1 ELSE 0))],
              span.end)

JsonNumberAt(s, i) ==
  JsonNumberOf(s, i, JsonMantissa(s, JsonInteger(s, IF CharAt(s, i) = "-" THEN i + 1 ELSE i)))

\* a key that is an array index: the decimal digits of an integer less than
\* 2^32 - 1, without a leading zero
MaxIndex == <<4, 2, 9, 4, 9, 6, 7, 2, 9, 4>>

IndexLess(a, b) ==
  \/ Len(a) < Len(b)
  \/ /\ Len(a) = Len(b)
     /\ \E i \in DOMAIN a : a[i] < b[i] /\ \A j \in 1..(i - 1) : a[j] = b[j]

IsArrayIndex(key) ==
  /\ key # <<>>
  /\ \A i \in DOMAIN key : key[i] >= 48 /\ key[i] <= 57
  /\ Len(key) = 1 \/ key[1] # 48
  /\ ~IndexLess(MaxIndex, [i \in DOMAIN key |-> key[i] - 48])

\* obj[key] = val: a key the object has keeps its place; the array indices
\* come first, in ascending order, then the other keys in the order of their
\* creation
ObjectPut(members, key, val) ==
  IF \E i \in DOMAIN members : members[i][1] = key
  THEN [i \in DOMAIN members |->
          IF members[i][1] = key THEN <<key, val>> ELSE members[i]]
  ELSE IF IsArrayIndex(key)
  THEN LET n == Cardinality({i \in DOMAIN members :
                               IsArrayIndex(members[i][1]) /\ IndexLess(members[i][1], key)})
       IN SubSeq(members, 1, n) \o <<<<key, val>>>> \o SubSeq(members, n + 1, Len(members))
  ELSE Append(members, <<key, val>>)

RECURSIVE JsonValueAt(_, _), JsonElements(_, _, _), JsonMembers(_, _, _, _)
\* the value that starts at i, which holds no white space
JsonValueFrom(s, i) ==
  LET c == CharAt(s, i)
      next == CharAt(s, SkipWs(s, i + 1))
  IN CASE c = "{" /\ next = "}" -> JsonOk([k |-> "object", v |-> <<>>], SkipWs(s, i + 1) + 1)
       [] c = "{" /\ next # "}" -> JsonMembers(s, i + 1, <<>>, "Expected property name or '}' in JSON")
       [] c = "[" /\ next = "]" -> JsonOk([k |-> "array", v |-> <<>>], SkipWs(s, i + 1) + 1)
       [] c = "[" /\ next # "]" -> JsonElements(s, i + 1, <<>>)
       [] c = "\"" -> JsonStringAt(s, i)
       [] c = "t" -> JsonLiteral(s, i, "true")
       [] c = "f" -> JsonLiteral(s, i, "false")
       [] c = "n" -> JsonLiteral(s, i, "null")
       [] c = "-" \/ IsDigit(c) -> JsonNumberAt(s, i)
       [] OTHER -> JsonFail(i, "")

JsonValueAt(s, i0) == JsonValueFrom(s, SkipWs(s, i0))

\* after an element, at j: the next element or the end of the array
JsonAfterElement(s, j, sofar) ==
  IF CharAt(s, j) = "," THEN JsonElements(s, j + 1, sofar)
  ELSE IF CharAt(s, j) = "]" THEN JsonOk([k |-> "array", v |-> sofar], j + 1)
  ELSE JsonFail(j, "Expected ',' or ']' after array element in JSON")

JsonElement(s, r, acc) ==
  IF ~r.ok THEN r ELSE JsonAfterElement(s, SkipWs(s, r.pos), Append(acc, r.val))

JsonElements(s, i0, acc) == JsonElement(s, JsonValueAt(s, i0), acc)

\* after a member, at j: the next member or the end of the object
JsonAfterMember(s, j, sofar) ==
  IF CharAt(s, j) = ","
  THEN JsonMembers(s, j + 1, sofar, "Expected double-quoted property name in JSON")
  ELSE IF CharAt(s, j) = "}" THEN JsonOk([k |-> "object", v |-> sofar], j + 1)
  ELSE JsonFail(j, "Expected ',' or '}' after property value in JSON")

JsonMember(s, name, r, acc) ==
  IF ~r.ok THEN r ELSE JsonAfterMember(s, SkipWs(s, r.pos), ObjectPut(acc, name, r.val))

JsonMemberValue(s, name, colon, acc) ==
  IF CharAt(s, colon) # ":" THEN JsonFail(colon, "Expected ':' after property name in JSON")
  ELSE JsonMember(s, name, JsonValueAt(s, colon + 1), acc)

JsonMemberName(s, key, acc) ==
  IF ~key.ok THEN key ELSE JsonMemberValue(s, key.val.v, SkipWs(s, key.pos), acc)

JsonMemberAt(s, i, acc, expected) ==
  IF CharAt(s, i) # "\"" THEN JsonFail(i, expected)
  ELSE JsonMemberName(s, JsonStringAt(s, i), acc)

\* the members from i0 on; `expected` is the message where no name starts
JsonMembers(s, i0, acc, expected) == JsonMemberAt(s, SkipWs(s, i0), acc, expected)

\* " at position p (line l column c)", p counted from 0
JsonPosition(s, pos) ==
  LET breaks == {j \in 1..(pos - 1) : CharAt(s, j) \in {"\n", "\r"}}
      \* a carriage return and the line feed after it are one line break
      lines == {j \in breaks : ~(CharAt(s, j) = "\r" /\ j + 1 < pos /\ CharAt(s, j + 1) = "\n")}
      last == IF breaks = {} THEN 0 ELSE CHOOSE j \in breaks : \A k \in breaks : k <= j
  IN " at position " \o NatToStr(pos - 1)
       \o " (line " \o NatToStr(1 + Cardinality(lines))
       \o " column " \o NatToStr(pos - last) \o ")"

\* the strings a value that is not a string is most often converted to
SpecialStrings == {"NaN", "Infinity", "undefined", "[object Object]"}

\* the characters shown on either side of an unexpected token
MaxContextCharacters == 10

\* the message of the SyntaxError for a failure at pos
JsonMessage(s, pos, why) ==
  LET c == CharAt(s, pos)
      n == MaxContextCharacters
      token == "Unexpected token '" \o c \o "', "
  IN IF why # "" THEN why \o JsonPosition(s, pos)
     ELSE IF c = "" THEN "Unexpected end of JSON input"
     ELSE IF c = "-" \/ IsDigit(c) THEN "Unexpected number in JSON" \o JsonPosition(s, pos)
     ELSE IF c = "\"" THEN "Unexpected string in JSON" \o JsonPosition(s, pos)
     ELSE IF s \in SpecialStrings THEN "\"" \o s \o "\" is not valid JSON"
     ELSE IF Len(s) <= 2 * n THEN token \o "\"" \o s \o "\" is not valid JSON"
     ELSE IF pos - 1 < n
          THEN token \o "\"" \o SubSeq(s, 1, pos - 1 + n) \o "\"... is not valid JSON"
     ELSE IF pos - 1 < Len(s) - n
          THEN token \o "...\"" \o SubSeq(s, pos - n, pos - 1 + n) \o "\"... is not valid JSON"
     ELSE token \o "...\"" \o SubSeq(s, pos - n, Len(s)) \o "\" is not valid JSON"

JsonThrow(s, pos, why) ==
  Throw([name |-> "SyntaxError", message |-> JsonMessage(s, pos, why)])

JsonEnd(s, val, end) ==
  IF end = Len(s) + 1 THEN Return(val)
  ELSE JsonThrow(s, end, "Unexpected non-whitespace character after JSON")

JsonWhole(s, r) ==
  IF r.ok THEN JsonEnd(s, r.val, SkipWs(s, r.pos)) ELSE JsonThrow(s, r.pos, r.why)

\* JSON.parse(s): the value, or the SyntaxError it throws
JsonParse(s) == JsonWhole(s, JsonValueAt(s, 1))

RECURSIVE Spaces(_)
Spaces(n) == IF n = 0 THEN "" ELSE " " \o Spaces(n - 1)

HexLower == "0123456789abcdef"

\* \uXXXX
UnicodeEscape(u) ==
  LET h(d) == SubSeq(HexLower, d + 1, d + 1)
  IN "\\u" \o h(u \div 4096) \o h((u \div 256) % 16) \o h((u \div 16) % 16) \o h(u % 16)

IsLead(u) == u >= 55296 /\ u <= 56319
IsTrail(u) == u >= 56320 /\ u <= 57343

\* what the code unit i of `units` is written as between quotes
QuoteUnit(units, i) ==
  LET u == units[i]
  IN CASE u = 34 -> Units("\\\"")
       [] u = 92 -> Units("\\\\")
       [] u = 8 -> Units("\\b")
       [] u = 9 -> Units("\\t")
       [] u = 10 -> Units("\\n")
       [] u = 12 -> Units("\\f")
       [] u = 13 -> Units("\\r")
       [] u < 32 /\ u \notin {8, 9, 10, 12, 13} -> Units(UnicodeEscape(u))
       \* a surrogate that is not one of a pair
       [] IsLead(u) /\ ~(i < Len(units) /\ IsTrail(units[i + 1])) -> Units(UnicodeEscape(u))
       [] IsTrail(u) /\ ~(i > 1 /\ IsLead(units[i - 1])) -> Units(UnicodeEscape(u))
       [] OTHER -> <<u>>

\* QuoteJSONString
RECURSIVE QuoteUnits(_, _, _)
QuoteUnits(units, lo, hi) ==
  IF lo > hi THEN <<>>
  ELSE IF lo = hi THEN QuoteUnit(units, lo)
  ELSE QuoteUnits(units, lo, (lo + hi) \div 2) \o QuoteUnits(units, ((lo + hi) \div 2) + 1, hi)

JsonQuote(units) == <<34>> \o QuoteUnits(units, 1, Len(units)) \o <<34>>

\* the RangeError of a recursion that has used up the stack, and of a string
\* longer than a string can be
StackOverflow == [name |-> "RangeError", message |-> "Maximum call stack size exceeded"]
InvalidStringLength == [name |-> "RangeError", message |-> "Invalid string length"]

\* String::kMaxLength, 2^29 - 24
MaxStringLength == 536870888

\* the code units of the text of a value at the indentation `ind`
RECURSIVE JsonSerialize(_, _), JsonJoin(_, _, _, _)
JsonSerialize(value, ind) ==
  CASE value.k = "number" ->
         Units(IF value.v.class = "infinite" THEN "null"
               ELSE NumberToString(value.v))
    [] value.k = "literal" -> Units(value.v)
    [] value.k = "string" -> JsonQuote(value.v)
    [] value.k = "array" ->
         (IF value.v = <<>> THEN Units("[]")
          ELSE Units("[\n") \o JsonJoin(value, 1, Len(value.v), ind + 2)
                 \o Units("\n" \o Spaces(ind) \o "]"))
    [] value.k = "object" ->
         (IF value.v = <<>> THEN Units("{}")
          ELSE Units("{\n") \o JsonJoin(value, 1, Len(value.v), ind + 2)
                 \o Units("\n" \o Spaces(ind) \o "}"))

\* the elements or the members lo..hi, each on its line at the indentation
\* `ind`, with ",\n" between them
JsonJoin(value, lo, hi, ind) ==
  IF lo < hi
  THEN JsonJoin(value, lo, (lo + hi) \div 2, ind) \o Units(",\n")
         \o JsonJoin(value, ((lo + hi) \div 2) + 1, hi, ind)
  ELSE IF value.k = "array"
  THEN Units(Spaces(ind)) \o JsonSerialize(value.v[lo], ind)
  ELSE Units(Spaces(ind)) \o JsonQuote(value.v[lo][1]) \o Units(": ")
         \o JsonSerialize(value.v[lo][2], ind)

\* the text is a string only if it is no longer than a string can be
JsonFinish(text) ==
  IF Len(text) > MaxStringLength THEN Throw(InvalidStringLength) ELSE Return(text)

\* the serializer looks at the stack where it goes into an array or an object
\* that holds something; a number, a string, a literal, "[]" and "{}" are
\* written without a look at the stack
ChecksStack(value) == value.k \in {"array", "object"} /\ value.v # <<>>

\* what the stack does under JSON.stringify. How deep a value the stack
\* holds is not fixed by the program: it depends on the build of the
\* runtime, on the stack size it was started with, on what lies on the stack
\* under the handler and on the shape of the value, so either may happen
\* wherever the serializer looks at the stack
Stacks == {"holds", "overflows"}

\* JSON.stringify(value, null, 2) on a stack that holds or overflows: the
\* code units of the text, or the RangeError thrown
JsonStringify(value, held) ==
  IF held = "overflows" /\ ChecksStack(value) THEN Throw(StackOverflow)
  ELSE JsonFinish(JsonSerialize(value, 0))

(***************************************************************************)
(* Parameter sets: a record with one entry per field of the tool's shape,  *)
(* Undefined for a field the caller left out.                              *)
(***************************************************************************)
AllUndefined(fields) == [f \in Range(fields) |-> Undefined]

NumPresent(p, fields) == Cardinality({f \in Range(fields) : p[f].t # "undefined"})

\* the parameter sets that extend `base` with values, drawn from dom, for at
\* most k of the fields of opt
RECURSIVE BuildParams(_, _, _, _, _)
BuildParams(rest, opt, dom, base, k) ==
  IF rest = <<>> THEN {base}
  ELSE LET P == BuildParams(Tail(rest), opt, dom, base, k)
           f == Head(rest)
       IN P \cup {[p EXCEPT ![f] = v] :
                    p \in {q \in P : NumPresent(q, opt) < k}, v \in dom[f]}

(***************************************************************************)
(* fetch_url_content                                                       *)
(***************************************************************************)
fetchFields ==
  <<"url", "apiKey", "generateImageAlt", "cookies", "outputFormat", "proxyUrl",
    "cacheTolerance", "noCache", "targetSelector", "waitForSelector", "timeout",
    "jsonOutput", "usePostForUrl">>

fetchOptional == Tail(fetchFields)

\* values the schema of fetch_url_content accepts, per field
fetchShape ==
  [f \in Range(fetchFields) |->
    CASE f = "url" -> {Str("https://a.io/p?q=1&r=2#f")}
      [] f = "apiKey" -> {Str(""), Str("k1")}
      [] f = "generateImageAlt" -> {Bool(FALSE), Bool(TRUE)}
      [] f = "cookies" -> {Str("sid=1")}
      [] f = "outputFormat" -> {Str("html")}
      [] f = "proxyUrl" -> {Str("http://p.io/")}
      [] f = "cacheTolerance" -> {Num(0), Num(0 - 1)}
      [] f = "noCache" -> {Bool(FALSE), Bool(TRUE)}
      [] f = "targetSelector" -> {Str(""), Str("#main")}
      [] f = "waitForSelector" -> {Str(".ready")}
      [] f = "timeout" -> {Num(0), Num(30), Num(0 - 5)}
      [] f = "jsonOutput" -> {Bool(FALSE), Bool(TRUE)}
      [] f = "usePostForUrl" -> {Bool(FALSE), Bool(TRUE)}]

fetchArgs ==
  UNION {BuildParams(fetchOptional, fetchOptional, fetchShape,
                     [AllUndefined(fetchFields) EXCEPT !["url"] = u], MaxPresent) :
           u \in fetchShape["url"]}

jinaBaseUrl == "https://r.jina.ai/"

\* fetch_requestHeaders with the two numeric fields tested for truthiness,
\* like the fields around them, so that a value of 0 sets no header
fetch_requestHeaders_truthyNumbers(p) ==
  LET h0 == NoHeaders
      h1 == HeaderIf(h0, Truthy(p.apiKey), "Authorization", "Bearer " \o JsString(p.apiKey))
      h2 == HeaderIf(h1, Truthy(p.generateImageAlt), "X-With-Generated-Alt", "true")
      h3 == HeaderIf(h2, Truthy(p.cookies), "X-Set-Cookie", JsString(p.cookies))
      h4 == HeaderIf(h3, Truthy(p.outputFormat), "X-Respond-With", JsString(p.outputFormat))
      h5 == HeaderIf(h4, Truthy(p.proxyUrl), "X-Proxy-Url", JsString(p.proxyUrl))
      h6 == HeaderIf(h5, Truthy(p.cacheTolerance), "X-Cache-Tolerance", JsString(p.cacheTolerance))
      h7 == HeaderIf(h6, Truthy(p.noCache), "X-No-Cache", "true")
      h8 == HeaderIf(h7, Truthy(p.targetSelector), "X-Target-Selector", JsString(p.targetSelector))
      h9 == HeaderIf(h8, Truthy(p.waitForSelector), "X-Wait-For-Selector", JsString(p.waitForSelector))
      h10 == HeaderIf(h9, Truthy(p.timeout), "X-Timeout", JsString(p.timeout))
      h11 == HeaderIf(h10, Truthy(p.jsonOutput), "Accept", "application/json")
  IN h11

\* the headers the handler has set before it chooses the method
fetch_requestHeaders(p) ==
  LET h0 == NoHeaders
      h1 == HeaderIf(h0, Truthy(p.apiKey), "Authorization", "Bearer " \o JsString(p.apiKey))
      h2 == HeaderIf(h1, Truthy(p.generateImageAlt), "X-With-Generated-Alt", "true")
      h3 == HeaderIf(h2, Truthy(p.cookies), "X-Set-Cookie", JsString(p.cookies))
      h4 == HeaderIf(h3, Truthy(p.outputFormat), "X-Respond-With", JsString(p.outputFormat))
      h5 == HeaderIf(h4, Truthy(p.proxyUrl), "X-Proxy-Url", JsString(p.proxyUrl))
      h6 == HeaderIf(h5, typeof(p.cacheTolerance) = "number", "X-Cache-Tolerance", JsString(p.cacheTolerance))
      h7 == HeaderIf(h6, Truthy(p.noCache), "X-No-Cache", "true")
      h8 == HeaderIf(h7, Truthy(p.targetSelector), "X-Target-Selector", JsString(p.targetSelector))
      h9 == HeaderIf(h8, Truthy(p.waitForSelector), "X-Wait-For-Selector", JsString(p.waitForSelector))
      h10 == HeaderIf(h9, typeof(p.timeout) = "number", "X-Timeout", JsString(p.timeout))
      h11 == HeaderIf(h10, Truthy(p.jsonOutput), "Accept", "application/json")
  IN h11

\* fetch_request with the target URL query-encoded in the GET branch
fetch_request_encodedGet(p) ==
  LET requestHeaders == fetch_requestHeaders(p)
  IN IF Truthy(p.usePostForUrl)
     THEN [method |-> "POST",
           url |-> jinaBaseUrl,
           headers |-> SetHeader(requestHeaders, "Content-Type", "application/x-www-form-urlencoded"),
           body |-> [t |-> "URLSearchParams", v |-> << <<"url", JsString(p.url)>> >>]]
     ELSE [method |-> "GET",
           url |-> jinaBaseUrl \o FormEncode(JsString(p.url)),
           headers |-> requestHeaders,
           body |-> Undefined]

\* the outbound request the handler hands to fetch
fetch_request(p) ==
  LET requestHeaders == fetch_requestHeaders(p)
  IN IF Truthy(p.usePostForUrl)
     THEN [method |-> "POST",
           url |-> jinaBaseUrl,
           headers |-> SetHeader(requestHeaders, "Content-Type", "application/x-www-form-urlencoded"),
           body |-> [t |-> "URLSearchParams", v |-> << <<"url", JsString(p.url)>> >>]]
     ELSE [method |-> "GET",
           url |-> jinaBaseUrl \o JsString(p.url),
           headers |-> requestHeaders,
           body |-> Undefined]

\* catch (error) of the handler
fetch_catch(error) == ErrorResult(Units("Network error fetching URL: " \o error.message))

\* a rejection answered by the same request sent again
fetch_onFetchSettled_retry(s) ==
  IF s.kind = "throw" THEN [kind |-> "fetch", request |-> request] ELSE Await

\* the handler once fetch has settled: a rejection lands in the catch, a
\* response leads to the read of its body
fetch_onFetchSettled(s) ==
  IF s.kind = "throw" THEN Return(fetch_catch(s.error)) ELSE Await

\* the handler once response.text() has settled
fetch_onBodySettled(r, s) ==
  IF s.kind = "throw" THEN Return(fetch_catch(s.error))
  ELSE IF ~ResponseOk(r)
       THEN Return(ErrorResult(Units("Error fetching URL: " \o IntToStr(r.status) \o " "
                                       \o r.statusText \o ". " \o s.value)))
       ELSE Return(TextResult(Units(s.value)))

(***************************************************************************)
(* search                                                                  *)
(***************************************************************************)
searchFields ==
  <<"q", "apiKey", "type", "provider", "count", "num", "gl", "hl", "location",
    "page", "fallback", "nfpr", "ext", "filetype", "intitle", "site", "loc",
    "outputFormat", "noCache", "cacheTolerance">>

searchOptional == Tail(Tail(searchFields))

\* values the schema of search accepts, per field
searchShape ==
  [f \in Range(searchFields) |->
    CASE f = "q" -> {Str("a&b=c d+(e)~é")}
      [] f = "apiKey" -> {Str("k1"), Str("")}
      [] f = "type" -> {Str("images")}
      [] f = "provider" -> {Str("bing")}
      [] f = "count" -> {Num(0), Num(5)}
      [] f = "num" -> {Num(0), Num(10)}
      [] f = "gl" -> {Str("us")}
      [] f = "hl" -> {Str("en")}
      [] f = "location" -> {Str("New York")}
      [] f = "page" -> {Num(0), Num(2)}
      [] f = "fallback" -> {Bool(FALSE), Bool(TRUE)}
      [] f = "nfpr" -> {Bool(FALSE), Bool(TRUE)}
      [] f = "ext" -> {Arr(<<>>), Arr(<<"pdf", "doc">>)}
      [] f = "filetype" -> {Arr(<<"pdf", "pdf">>)}
      [] f = "intitle" -> {Arr(<<"b c", "a">>)}
      [] f = "site" -> {Arr(<<"b.io", "a.io">>)}
      [] f = "loc" -> {Arr(<<"fr", "en">>)}
      [] f = "outputFormat" -> {Str("json"), Str("text")}
      [] f = "noCache" -> {Bool(FALSE), Bool(TRUE)}
      [] f = "cacheTolerance" -> {Num(0), Num(60)}]

searchArgs ==
  UNION {BuildParams(searchOptional, searchOptional, searchShape,
                     [AllUndefined(searchFields) EXCEPT !["q"] = q, !["apiKey"] = k],
                     MaxPresent) :
           q \in searchShape["q"], k \in searchShape["apiKey"]}

\* only type has its default
search_defaults_typeOnly(a) ==
  [a EXCEPT !["type"] = IF a["type"].t = "undefined" THEN Str("web") ELSE a["type"]]

\* type = "web", fallback = true: the defaults of the schema and of the
\* handler's parameter list
search_defaults(a) ==
  [a EXCEPT !["type"] = IF a["type"].t = "undefined" THEN Str("web") ELSE a["type"],
            !["fallback"] = IF a["fallback"].t = "undefined" THEN Bool(TRUE) ELSE a["fallback"]]

\* the key sent as it is, without the Bearer scheme
search_requestHeaders_bareKey(p) ==
  LET h0 == NoHeaders
      h1 == HeaderIf(h0, Truthy(p.apiKey), "Authorization", JsString(p.apiKey))
      h2 == HeaderIf(h1, p.outputFormat.t = "string" /\ p.outputFormat.v = "json",
                     "Accept", "application/json")
      h3 == HeaderIf(h2, Truthy(p.noCache), "X-No-Cache", "true")
      h4 == HeaderIf(h3, typeof(p.cacheTolerance) = "number", "X-Cache-Tolerance", JsString(p.cacheTolerance))
  IN h4

search_requestHeaders(p) ==
  LET h0 == NoHeaders
      h1 == HeaderIf(h0, Truthy(p.apiKey), "Authorization", "Bearer " \o JsString(p.apiKey))
      h2 == HeaderIf(h1, p.outputFormat.t = "string" /\ p.outputFormat.v = "json",
                     "Accept", "application/json")
      h3 == HeaderIf(h2, Truthy(p.noCache), "X-No-Cache", "true")
      h4 == HeaderIf(h3, typeof(p.cacheTolerance) = "number", "X-Cache-Tolerance", JsString(p.cacheTolerance))
  IN h4

\* if (cond) searchParams.append(name, value)
AppendIf(sp, cond, name, value) == IF cond THEN Append_(sp, name, value) ELSE sp

\* a.forEach(e => searchParams.set(name, e)): each element replaces the last
AppendEach_set(sp, name, a) ==
  IF a.t = "undefined" \/ a.v = <<>> THEN sp
  ELSE ParamsSet(sp, name, a.v[Len(a.v)])

\* if (a?.length) a.forEach(e => searchParams.append(name, e))
RECURSIVE AppendEach(_, _, _)
AppendEach(sp, name, a) ==
  IF a.t = "undefined" \/ a.v = <<>> THEN sp
  ELSE AppendEach(Append_(sp, name, Head(a.v)), name, Arr(Tail(a.v)))

search_searchParams(p) ==
  LET s0 == Append_(<<>>, "q", JsString(p.q))
      s1 == AppendIf(s0, Truthy(p.type), "type", JsString(p.type))
      s2 == AppendIf(s1, Truthy(p.provider), "provider", JsString(p.provider))
      s3 == AppendIf(s2, Truthy(p.count), "count", JsString(p.count))
      s4 == AppendIf(s3, Truthy(p.num), "num", JsString(p.num))
      s5 == AppendIf(s4, Truthy(p.gl), "gl", JsString(p.gl))
      s6 == AppendIf(s5, Truthy(p.hl), "hl", JsString(p.hl))
      s7 == AppendIf(s6, Truthy(p.location), "location", JsString(p.location))
      s8 == AppendIf(s7, Truthy(p.page), "page", JsString(p.page))
      s9 == AppendIf(s8, p.fallback.t # "undefined", "fallback", JsString(p.fallback))
      s10 == AppendIf(s9, p.nfpr.t # "undefined", "nfpr", JsString(p.nfpr))
      s11 == AppendEach(s10, "ext", p.ext)
      s12 == AppendEach(s11, "filetype", p.filetype)
      s13 == AppendEach(s12, "intitle", p.intitle)
      s14 == AppendEach(s13, "site", p.site)
      s15 == AppendEach(s14, "loc", p.loc)
  IN s15

search_request(a) ==
  LET p == search_defaults(a)
  IN [method |-> "GET",
      url |-> "https://s.jina.ai/search?" \o ParamsToString(search_searchParams(p)),
      headers |-> search_requestHeaders(p),
      body |-> Undefined]

search_catch(error) == ErrorResult(Units("Network error during search: " \o error.message))

search_onFetchSettled(s) ==
  IF s.kind = "throw" THEN Return(search_catch(s.error)) ELSE Await

\* search_onBodySettled with a 2xx body that parses as JSON re-serialized,
\* as the flights handler does
search_onBodySettled_reserialized(r, s) ==
  IF s.kind = "throw" THEN Return(search_catch(s.error))
  ELSE IF ~ResponseOk(r)
       THEN Return(ErrorResult(Units("Error performing search: " \o IntToStr(r.status)
                                       \o " " \o r.statusText \o ". " \o s.value)))
       ELSE LET data == JsonParse(s.value)
            IN IF data.kind = "throw" THEN Return(TextResult(Units(s.value)))
               ELSE Return(TextResult(JsonStringify(data.value, "holds").value))

\* search_onBodySettled with a response that is not ok thrown into the catch
search_onBodySettled_thrown(r, s) ==
  IF s.kind = "throw" THEN Return(search_catch(s.error))
  ELSE IF ~ResponseOk(r)
       THEN Return(search_catch([name |-> "Error",
                                 message |-> IntToStr(r.status) \o " " \o r.statusText
                                               \o ". " \o s.value]))
       ELSE Return(TextResult(Units(s.value)))

search_onBodySettled(r, s) ==
  IF s.kind = "throw" THEN Return(search_catch(s.error))
  ELSE IF ~ResponseOk(r)
       THEN Return(ErrorResult(Units("Error performing search: " \o IntToStr(r.status)
                                       \o " " \o r.statusText \o ". " \o s.value)))
       ELSE Return(TextResult(Units(s.value)))

(***************************************************************************)
(* searchGoogleFlights                                                     *)
(***************************************************************************)
\* the keys of googleFlightsRawShape, in the order of the shape
flightFields ==
  <<"api_key", "departure_id", "arrival_id", "gl", "hl", "currency", "flight_type",
    "outbound_date", "return_date", "travel_class", "multi_city_json", "show_hidden",
    "deep_search", "adults", "children", "infants_in_seat", "infants_on_lap",
    "sort_by", "stops", "exclude_airlines", "include_airlines", "bags", "max_price",
    "outbound_times", "return_times", "emissions", "layover_duration",
    "exclude_conns", "max_duration", "departure_token", "booking_token",
    "no_cache", "async_search", "zero_trace">>

\* the fields the refinements of googleFlightsFullSchema read
flightRuleFields ==
  <<"flight_type", "return_date", "multi_city_json", "exclude_airlines",
    "include_airlines", "departure_token", "booking_token", "no_cache",
    "async_search">>

\* the other optional fields
flightPassThrough ==
  SelectSeq(Tail(flightFields), LAMBDA f : f \notin Range(flightRuleFields))

\* values googleFlightsRawShape accepts, per field
googleFlightsRawShape ==
  [f \in Range(flightFields) |->
    CASE f = "api_key" -> {Str("sk")}
      [] f = "departure_id" -> {Str("CDG,ORY")}
      [] f = "arrival_id" -> {Str("LHR")}
      [] f = "gl" -> {Str(""), Str("us")}
      [] f = "hl" -> {Str("en")}
      [] f = "currency" -> {Str("USD")}
      [] f = "flight_type" -> {Str("1"), Str("2"), Str("3")}
      [] f = "outbound_date" -> {Str("2025-05-19")}
      [] f = "return_date" -> {Str("2025-05-25")}
      [] f = "travel_class" -> {Str("4")}
      [] f = "multi_city_json" -> {Str(""), Str("[{\"date\":\"2025-05-25\"}]")}
      [] f = "show_hidden" -> {Bool(FALSE), Bool(TRUE)}
      [] f = "deep_search" -> {Bool(TRUE)}
      [] f = "adults" -> {Num(0), Num(2)}
      [] f = "children" -> {Num(1)}
      [] f = "infants_in_seat" -> {Num(0)}
      [] f = "infants_on_lap" -> {Num(1)}
      [] f = "sort_by" -> {Str("2")}
      [] f = "stops" -> {Str("0")}
      [] f = "exclude_airlines" -> {Str(""), Str("UA")}
      [] f = "include_airlines" -> {Str("DL")}
      [] f = "bags" -> {Num(1)}
      [] f = "max_price" -> {Num(500)}
      [] f = "outbound_times" -> {Str("4,18")}
      [] f = "return_times" -> {Str("4,18,3,19")}
      [] f = "emissions" -> {Str("1")}
      [] f = "layover_duration" -> {Str("90,330")}
      [] f = "exclude_conns" -> {Str("CDG,AUS")}
      [] f = "max_duration" -> {Num(1500)}
      [] f = "departure_token" -> {Str("a")}
      [] f = "booking_token" -> {Str("b")}
      [] f = "no_cache" -> {Bool(FALSE), Bool(TRUE)}
      [] f = "async_search" -> {Bool(TRUE)}
      [] f = "zero_trace" -> {Bool(FALSE), Bool(TRUE)}]

\* every combination of the fields the rules read, and, apart from those, up
\* to MaxPassThrough of the other fields
flightArgs ==
  UNION {BuildParams(flightRuleFields, flightRuleFields, googleFlightsRawShape,
                     [AllUndefined(flightFields) EXCEPT !["api_key"] = k],
                     Len(flightRuleFields))
           \cup BuildParams(flightPassThrough, flightPassThrough, googleFlightsRawShape,
                            [AllUndefined(flightFields) EXCEPT !["api_key"] = k],
                            MaxPassThrough) :
           k \in googleFlightsRawShape["api_key"]}

\* the refinements of googleFlightsFullSchema, in the order they are chained
NumRefinements == 5

\* RefinementHolds with the third refinement reading zero_trace where it
\* should read async_search
RefinementHolds_wrongPair(i, data) ==
  CASE i = 1 -> ~(Truthy(data.exclude_airlines) /\ Truthy(data.include_airlines))
    [] i = 2 -> ~(Truthy(data.departure_token) /\ Truthy(data.booking_token))
    [] i = 3 -> ~(Truthy(data.no_cache) /\ Truthy(data.zero_trace))
    [] i = 4 -> ~(data.flight_type.t = "string" /\ data.flight_type.v = "1"
                   /\ typeof(data.return_date) = "undefined")
    [] i = 5 -> ~(data.flight_type.t = "string" /\ data.flight_type.v = "3"
                   /\ typeof(data.multi_city_json) = "undefined")

\* RefinementHolds with the fourth refinement firing for a one-way trip ('2')
\* where it should fire for a round trip ('1')
RefinementHolds_wrongType(i, data) ==
  CASE i = 1 -> ~(Truthy(data.exclude_airlines) /\ Truthy(data.include_airlines))
    [] i = 2 -> ~(Truthy(data.departure_token) /\ Truthy(data.booking_token))
    [] i = 3 -> ~(Truthy(data.no_cache) /\ Truthy(data.async_search))
    [] i = 4 -> ~(data.flight_type.t = "string" /\ data.flight_type.v = "2"
                   /\ typeof(data.return_date) = "undefined")
    [] i = 5 -> ~(data.flight_type.t = "string" /\ data.flight_type.v = "3"
                   /\ typeof(data.multi_city_json) = "undefined")

\* RefinementHolds with an omitted flight_type read as its upstream default,
\* '1' (round trip)
RefinementHolds_defaultRoundTrip(i, data) ==
  CASE i = 1 -> ~(Truthy(data.exclude_airlines) /\ Truthy(data.include_airlines))
    [] i = 2 -> ~(Truthy(data.departure_token) /\ Truthy(data.booking_token))
    [] i = 3 -> ~(Truthy(data.no_cache) /\ Truthy(data.async_search))
    [] i = 4 -> ~((data.flight_type.t = "undefined"
                     \/ (data.flight_type.t = "string" /\ data.flight_type.v = "1"))
                   /\ typeof(data.return_date) = "undefined")
    [] i = 5 -> ~(data.flight_type.t = "string" /\ data.flight_type.v = "3"
                   /\ typeof(data.multi_city_json) = "undefined")

RefinementHolds(i, data) ==
  CASE i = 1 -> ~(Truthy(data.exclude_airlines) /\ Truthy(data.include_airlines))
    [] i = 2 -> ~(Truthy(data.departure_token) /\ Truthy(data.booking_token))
    [] i = 3 -> ~(Truthy(data.no_cache) /\ Truthy(data.async_search))
    [] i = 4 -> ~(data.flight_type.t = "string" /\ data.flight_type.v = "1"
                   /\ typeof(data.return_date) = "undefined")
    [] i = 5 -> ~(data.flight_type.t = "string" /\ data.flight_type.v = "3"
                   /\ typeof(data.multi_city_json) = "undefined")

RefinementIssue(i) ==
  CASE i = 1 -> [path |-> <<"exclude_airlines">>,
                 message |-> "exclude_airlines and include_airlines cannot be used together."]
    [] i = 2 -> [path |-> <<"departure_token">>,
                 message |-> "departure_token and booking_token cannot be used together."]
    [] i = 3 -> [path |-> <<"no_cache">>,
                 message |-> "no_cache and async_search cannot be used together."]
    [] i = 4 -> [path |-> <<"return_date">>,
                 message |-> "return_date is required when flight_type is '1' (Round trip)."]
    [] i = 5 -> [path |-> <<"multi_city_json">>,
                 message |-> "multi_city_json is required when flight_type is '3' (Multi-city)."]

\* RefinementIssues with the chain stopping at the first failed refinement
RECURSIVE RefinementIssues_firstOnly(_, _)
RefinementIssues_firstOnly(i, data) ==
  IF i > NumRefinements THEN <<>>
  ELSE IF ~RefinementHolds(i, data) THEN <<RefinementIssue(i)>>
  ELSE RefinementIssues_firstOnly(i + 1, data)

\* the issues of the refinements i..NumRefinements: a failed refinement adds
\* its issue and the ones chained after it still run
RECURSIVE RefinementIssues(_, _)
RefinementIssues(i, data) ==
  IF i > NumRefinements THEN <<>>
  ELSE (IF RefinementHolds(i, data) THEN <<>> ELSE <<RefinementIssue(i)>>)
         \o RefinementIssues(i + 1, data)

\* googleFlightsFullSchema.parse(params): the data, or the ZodError thrown
googleFlightsFullSchema_parse(data) ==
  LET issues == RefinementIssues(1, data)
  IN IF issues = <<>> THEN Return(data)
     ELSE Throw([name |-> "ZodError", errors |-> issues])

\* a.join(sep) for an array of strings
RECURSIVE Join(_, _)
Join(a, sep) ==
  IF a = <<>> THEN ""
  ELSE IF Len(a) = 1 THEN a[1]
  ELSE a[1] \o sep \o Join(Tail(a), sep)

\* `${e.path.join('.')}: ${e.message}`
IssueText(e) == Join(e.path, ".") \o ": " \o e.message

\* catch (validationError) of the handler
flights_validationCatch(validationError) ==
  ErrorResult(Units("Input validation error: "
                      \o Join([i \in DOMAIN validationError.errors |->
                                 IssueText(validationError.errors[i])], ", ")))

\* the loop over Object.entries(restParams)
RECURSIVE flights_restParams(_, _, _)
flights_restParams(qp, keys, v) ==
  IF keys = <<>> THEN qp
  ELSE LET key == Head(keys)
           value == v[key]
           next == IF key \in {"api_key", "flight_type", "async_search"} THEN qp
                   ELSE IF typeof(value) = "undefined" THEN qp
                   ELSE IF typeof(value) \in {"boolean", "number"}
                        THEN ParamsSet(qp, key, JsString(value))
                   ELSE IF typeof(value) = "string" THEN ParamsSet(qp, key, value.v)
                   ELSE qp
       IN flights_restParams(next, Tail(keys), v)

\* flight_type and async_search kept under their own names
flights_queryParams_ownNames(v) ==
  LET q0 == << <<"engine", "google_flights">>, <<"api_key", JsString(v.api_key)>> >>
      q1 == IF typeof(v.flight_type) # "undefined"
            THEN ParamsSet(q0, "flight_type", JsString(v.flight_type)) ELSE q0
      q2 == IF typeof(v.async_search) # "undefined"
            THEN ParamsSet(q1, "async_search", JsString(v.async_search)) ELSE q1
  IN flights_restParams(q2, flightFields, v)

flights_queryParams(v) ==
  LET q0 == << <<"engine", "google_flights">>, <<"api_key", JsString(v.api_key)>> >>
      q1 == IF typeof(v.flight_type) # "undefined"
            THEN ParamsSet(q0, "type", JsString(v.flight_type)) ELSE q0
      q2 == IF typeof(v.async_search) # "undefined"
            THEN ParamsSet(q1, "async", JsString(v.async_search)) ELSE q1
  IN flights_restParams(q2, flightFields, v)

flights_request(v) ==
  [method |-> "GET",
   url |-> "https://serpapi.com/search.json?" \o ParamsToString(flights_queryParams(v)),
   headers |-> NoHeaders,
   body |-> Undefined]

\* flights_onCall with the outcome of the validation ignored
flights_onCall_unvalidated(a) == [kind |-> "fetch", request |-> flights_request(a)]

\* the handler up to its first await: an envelope when validation fails, or
\* the request it hands to fetch
flights_onCall(a) ==
  LET parsed == googleFlightsFullSchema_parse(a)
  IN IF parsed.kind = "throw" THEN Return(flights_validationCatch(parsed.error))
     ELSE [kind |-> "fetch", request |-> flights_request(parsed.value)]

\* catch (error) around the fetch and the read of the response
flights_catch(error) == ErrorResult(Units("Failed to fetch flight data: " \o error.message))

flights_onFetchSettled(s) ==
  IF s.kind = "throw" THEN Return(flights_catch(s.error)) ELSE Await

\* return { content: [{ type: "text", text: JSON.stringify(data, null, 2) }] }
\* inside the try: what JSON.stringify throws lands in the catch
flights_onStringified(text) ==
  IF text.kind = "throw" THEN Return(flights_catch(text.error))
  ELSE Return(TextResult(text.value))

\* flights_onBodySettled with the error body left out of the message
flights_onBodySettled_noDetails(r, s, held) ==
  IF s.kind = "throw" THEN Return(flights_catch(s.error))
  ELSE IF ~ResponseOk(r)
       THEN Return(ErrorResult(Units("Error fetching flight data from SerpApi: "
                                       \o IntToStr(r.status) \o " " \o r.statusText \o ".")))
       ELSE LET data == JsonParse(s.value)
            IN IF data.kind = "throw" THEN Return(flights_catch(data.error))
               ELSE flights_onStringified(JsonStringify(data.value, held))

\* flights_onBodySettled with the return of the text after the try block,
\* where nothing catches what JSON.stringify throws
flights_onBodySettled_uncaught(r, s, held) ==
  IF s.kind = "throw" THEN Return(flights_catch(s.error))
  ELSE IF ~ResponseOk(r)
       THEN Return(ErrorResult(Units("Error fetching flight data from SerpApi: "
                                       \o IntToStr(r.status) \o " " \o r.statusText
                                       \o ". Details: " \o s.value)))
       ELSE LET data == JsonParse(s.value)
            IN IF data.kind = "throw" THEN Return(flights_catch(data.error))
               ELSE LET text == JsonStringify(data.value, held)
                    IN IF text.kind = "throw" THEN text ELSE Return(TextResult(text.value))

\* the handler once the body has been read: response.text() when the
\* response is not ok, response.json() and JSON.stringify when it is; `held`
\* is what the stack does under JSON.stringify
flights_onBodySettled(r, s, held) ==
  IF s.kind = "throw" THEN Return(flights_catch(s.error))
  ELSE IF ~ResponseOk(r)
       THEN Return(ErrorResult(Units("Error fetching flight data from SerpApi: "
                                       \o IntToStr(r.status) \o " " \o r.statusText
                                       \o ". Details: " \o s.value)))
       ELSE LET data == JsonParse(s.value)
            IN IF data.kind = "throw" THEN Return(flights_catch(data.error))
               ELSE flights_onStringified(JsonStringify(data.value, held))

(***************************************************************************)
(* The upstream: what an outbound call can come back with.                 *)
(***************************************************************************)
Responses ==
  {[status |-> 200, statusText |-> "OK"],
   [status |-> 404, statusText |-> "Not Found"]}

\* a JSON text that is not what JSON.stringify prints for its value, with a
\* code unit written as an escape and an array inside its object
JsonBody == "{\"b\":[1.50],\"1\":\"x\\\"y\\u20ac\"}"

Bodies == {"# Title\nBody", "not found", JsonBody}

\* what fetch rejects with
FetchFaults == {[name |-> "TypeError", message |-> "ECONNRESET"]}

\* what response.text() and response.json() reject with when the body
\* cannot be read to its end
BodyFaults == {[name |-> "TypeError", message |-> "terminated"]}

(***************************************************************************)
(* The invocation.                                                         *)
(***************************************************************************)
\* the handler of tool t from its call to its first await
OnCall(t, a) ==
  CASE t = "fetch_url_content" -> [kind |-> "fetch", request |-> fetch_request(a)]
    [] t = "search" -> [kind |-> "fetch", request |-> search_request(a)]
    [] t = "searchGoogleFlights" -> flights_onCall(a)

OnFetchSettled(t, s) ==
  CASE t = "fetch_url_content" -> fetch_onFetchSettled(s)
    [] t = "search" -> search_onFetchSettled(s)
    [] t = "searchGoogleFlights" -> flights_onFetchSettled(s)

OnBodySettled(t, r, s, held) ==
  CASE t = "fetch_url_content" -> fetch_onBodySettled(r, s)
    [] t = "search" -> search_onBodySettled(r, s)
    [] t = "searchGoogleFlights" -> flights_onBodySettled(r, s, held)

Init ==
  /\ pc = "idle"
  /\ tool = "none"
  /\ params = Undefined
  /\ request = Undefined
  /\ calls = 0
  /\ response = Pending
  /\ body = Pending
  /\ result = Pending
  /\ stack = "idle"

\* the promise of the handler settles: fulfilled with an envelope, or rejected
Settle(c) ==
  /\ pc' = IF c.kind = "return" THEN "returned" ELSE "rejected"
  /\ result' = c

\* the transport calls the handler of tool t with the arguments a
Call(t, a) ==
  /\ pc = "idle"
  /\ tool' = t
  /\ params' = a
  /\ LET c == OnCall(t, a)
     IN IF c.kind = "fetch"
        THEN /\ request' = c.request
             /\ calls' = calls + 1
             /\ pc' = "awaitFetch"
             /\ UNCHANGED <<response, body, result, stack>>
        ELSE /\ Settle(c)
             /\ UNCHANGED <<request, calls, response, body, stack>>

Call_fetch_url_content == \E a \in fetchArgs : Call("fetch_url_content", a)

Call_search == \E a \in searchArgs : Call("search", a)

Call_searchGoogleFlights == \E a \in flightArgs : Call("searchGoogleFlights", a)

\* fetch resolves with a response: its status line and headers have arrived
FetchResolves ==
  /\ pc = "awaitFetch"
  /\ \E r \in Responses :
       LET c == OnFetchSettled(tool, Return(r))
       IN IF c.kind = "await"
          THEN /\ response' = Return(r)
               /\ pc' = "awaitBody"
               /\ UNCHANGED <<tool, params, request, calls, body, result, stack>>
          ELSE /\ Settle(c)
               /\ UNCHANGED <<tool, params, request, calls, response, body, stack>>

\* fetch rejects: the call did not complete
FetchRejects ==
  /\ pc = "awaitFetch"
  /\ \E e \in FetchFaults :
       LET c == OnFetchSettled(tool, Throw(e))
       IN IF c.kind = "fetch"
          THEN /\ request' = c.request
               /\ calls' = calls + 1
               /\ UNCHANGED <<pc, tool, params, response, body, result, stack>>
          ELSE /\ response' = Throw(e)
               /\ Settle(c)
               /\ UNCHANGED <<tool, params, request, calls, body, stack>>

\* the handler goes as far as JSON.stringify: in searchGoogleFlights, when
\* the response is ok and its body is JSON
Stringifies(t, r, b) ==
  t = "searchGoogleFlights" /\ ResponseOk(r) /\ JsonParse(b).kind = "return"

\* what the stack may do under JSON.stringify, "idle" when it is not called
StacksAt(t, r, b) == IF Stringifies(t, r, b) THEN Stacks ELSE {"idle"}

\* the body has been read to its end and the handler resumes; `stack` keeps
\* what the stack does under JSON.stringify
BodyResolves ==
  /\ pc = "awaitBody"
  /\ \E b \in Bodies :
       \E held \in StacksAt(tool, response.value, b) :
       /\ body' = Return(b)
       /\ stack' = held
       /\ Settle(OnBodySettled(tool, response.value, Return(b), held))
       /\ UNCHANGED <<tool, params, request, calls, response>>

\* the read of the body fails
BodyRejects ==
  /\ pc = "awaitBody"
  /\ \E e \in BodyFaults :
       /\ body' = Throw(e)
       /\ Settle(OnBodySettled(tool, response.value, Throw(e), stack))
       /\ UNCHANGED <<tool, params, request, calls, response, stack>>

\* the transport has taken the outcome; the next invocation starts afresh
Done ==
  /\ pc \in {"returned", "rejected"}
  /\ pc' = "idle"
  /\ tool' = "none"
  /\ params' = Undefined
  /\ request' = Undefined
  /\ calls' = 0
  /\ response' = Pending
  /\ body' = Pending
  /\ result' = Pending
  /\ stack' = "idle"

Next ==
  \/ Call_fetch_url_content
  \/ Call_search
  \/ Call_searchGoogleFlights
  \/ FetchResolves
  \/ FetchRejects
  \/ BodyResolves
  \/ BodyRejects
  \/ Done

Spec == Init /\ [][Next]_vars

(***************************************************************************)
(* Properties.                                                             *)
(***************************************************************************)
\* the envelope the handler returned and its text, once pc = "returned"
Envelope == result.value
Text == result.value.content[1].text

\* the text holds, starts with, is the string s
TextHas(s) == Contains(Text, Units(s))
TextStarts(s) == StartsWith(Text, Units(s))
TextIs(s) == Text = Units(s)

\* the response arrived and its body was read to the end
Completed == response.kind = "return" /\ body.kind = "return"
Status == response.value.status
Is2xx == Status \in 200..299

\* what JSON.stringify gave for a parsed body, on the stack the handler had
Stringified(parsed) == JsonStringify(parsed.value, stack)

\* the error raised on the way from the 2xx body of a flights response to
\* its text: by the parse of the body, or by JSON.stringify on the parsed
\* value; Undefined when both went through
FlightsFaultOf(parsed) ==
  IF parsed.kind = "throw" THEN parsed.error
  ELSE IF Stringified(parsed).kind = "throw" THEN Stringified(parsed).error
  ELSE Undefined
FlightsFault == FlightsFaultOf(JsonParse(body.value))

\* the 2xx body of a flights response was parsed and JSON.stringify threw on
\* its value
StringifyThrew ==
  /\ tool = "searchGoogleFlights"
  /\ Completed /\ Is2xx
  /\ JsonParse(body.value).kind = "return"
  /\ FlightsFault # Undefined

\* C1: for every tool, every accepted parameter set and every outcome of
\* the outbound call, the promise of the handler is fulfilled with an
\* envelope and never rejected; when the outcome is a fault (fetch rejects,
\* the read of the body rejects, the 2xx body of a flights response does
\* not parse, or JSON.stringify throws on its value), the envelope is
\* error-flagged and its text contains the message of the fault.
C1_NeverThrows ==
  /\ pc # "rejected"
  /\ pc = "returned" =>
       /\ result.kind = "return"
       /\ response.kind = "throw" =>
            IsError(Envelope) /\ TextHas(response.error.message)
       /\ body.kind = "throw" =>
            IsError(Envelope) /\ TextHas(body.error.message)
       /\ (tool = "searchGoogleFlights" /\ Completed /\ Is2xx) =>
            LET fault == FlightsFault
            IN fault # Undefined =>
                 IsError(Envelope) /\ TextHas(fault.message)

C1_Witness ==
  /\ pc = "returned"
  /\ StringifyThrew
  /\ body.value = JsonBody
  /\ stack = "overflows"
  /\ IsError(Envelope)
  /\ TextIs("Failed to fetch flight data: Maximum call stack size exceeded")

\* the cross-field rules of searchGoogleFlights, as the refinements state them
C2_BothUsed(p, a, b) == Truthy(p[a]) /\ Truthy(p[b])

C2_Missing(p, type, field) ==
  p.flight_type.t = "string" /\ p.flight_type.v = type /\ p[field].t = "undefined"

C2_RulesViolated(p) ==
  {r \in 1..5 :
     CASE r = 1 -> C2_BothUsed(p, "exclude_airlines", "include_airlines")
       [] r = 2 -> C2_BothUsed(p, "departure_token", "booking_token")
       [] r = 3 -> C2_BothUsed(p, "no_cache", "async_search")
       [] r = 4 -> C2_Missing(p, "1", "return_date")
       [] r = 5 -> C2_Missing(p, "3", "multi_city_json")}

\* C2: an invocation of searchGoogleFlights whose parameter set violates a
\* cross-field rule returns an error-flagged envelope without ever issuing an
\* outbound call; a call is issued only for a parameter set that violates none.
C2_ValidationPrecedesCall ==
  (tool = "searchGoogleFlights" /\ C2_RulesViolated(params) # {}) =>
    /\ pc = "returned"
    /\ IsError(Envelope)
    /\ calls = 0
    /\ request = Undefined
    /\ response = Pending

C2_Witness ==
  /\ tool = "searchGoogleFlights"
  /\ C2_RulesViolated(params) = {1, 4}
  /\ pc = "returned"
  /\ calls = 0

\* the entry of the validation error text for each rule
C3_Entry(r) ==
  CASE r = 1 -> "exclude_airlines: exclude_airlines and include_airlines cannot be used together."
    [] r = 2 -> "departure_token: departure_token and booking_token cannot be used together."
    [] r = 3 -> "no_cache: no_cache and async_search cannot be used together."
    [] r = 4 -> "return_date: return_date is required when flight_type is '1' (Round trip)."
    [] r = 5 -> "multi_city_json: multi_city_json is required when flight_type is '3' (Multi-city)."

RECURSIVE C3_SumLen(_)
C3_SumLen(R) ==
  IF R = {} THEN 0
  ELSE LET r == CHOOSE x \in R : TRUE IN Len(C3_Entry(r)) + C3_SumLen(R \ {r})

\* C3: the validation error text of searchGoogleFlights is the prefix
\* followed by exactly one "path: message" entry per violated rule, joined by
\* ", ": the entry of every violated rule is there, the entry of no other
\* rule is, and the text holds nothing more.
C3_OneEntryPerViolation ==
  (tool = "searchGoogleFlights" /\ pc = "returned" /\ calls = 0) =>
    LET R == C2_RulesViolated(params)
    IN /\ R # {}
       /\ TextStarts("Input validation error: ")
       /\ \A r \in 1..5 : TextHas(C3_Entry(r)) <=> r \in R
       /\ Len(Text) = Len("Input validation error: ") + C3_SumLen(R)
                        + 2 * (Cardinality(R) - 1)

C3_Witness ==
  /\ tool = "searchGoogleFlights"
  /\ pc = "returned"
  /\ Cardinality(C2_RulesViolated(params)) >= 3
  /\ TextIs("Input validation error: " \o C3_Entry(1) \o ", " \o C3_Entry(2)
              \o ", " \o C3_Entry(3) \o ", " \o C3_Entry(5))

\* the three pairs of fields that exclude each other
C4_Pairs ==
  {<<"exclude_airlines", "include_airlines">>,
   <<"departure_token", "booking_token">>,
   <<"no_cache", "async_search">>}

C4_Present(x) == x.t # "undefined"

\* C4 as claimed: a parameter set that holds both fields of a pair, whatever
\* their values, fails validation and no outbound request is built from it.
C4_BothPresentRejected ==
  (tool = "searchGoogleFlights"
     /\ \E pr \in C4_Pairs : C4_Present(params[pr[1]]) /\ C4_Present(params[pr[2]])) =>
    pc = "returned" /\ IsError(Envelope) /\ calls = 0

\* C4, amended: a parameter set in which both fields of a pair are used (a
\* non-empty string, true) fails validation with the entry of that pair in
\* the text, and no outbound request is built from it; a field that is
\* present but false or empty does not count as used.
C4_BothUsedRejected ==
  tool = "searchGoogleFlights" =>
    \A r \in 1..3 :
      LET pr == CASE r = 1 -> <<"exclude_airlines", "include_airlines">>
                  [] r = 2 -> <<"departure_token", "booking_token">>
                  [] r = 3 -> <<"no_cache", "async_search">>
      IN (Truthy(params[pr[1]]) /\ Truthy(params[pr[2]])) =>
           /\ pc = "returned"
           /\ IsError(Envelope)
           /\ TextHas(C3_Entry(r))
           /\ calls = 0
           /\ request = Undefined

C4_Witness ==
  /\ tool = "searchGoogleFlights"
  /\ pc = "returned"
  /\ Truthy(params.no_cache) /\ Truthy(params.async_search)
  /\ C2_RulesViolated(params) = {3}
  /\ IsError(Envelope)
  /\ calls = 0

\* C5: an outbound searchGoogleFlights request with type=1 in its query has
\* a return_date parameter and one with type=3 has a multi_city_json
\* parameter; a parameter set with flight_type '1' and no return_date, or
\* flight_type '3' and no multi_city_json, is rejected, error-flagged, before
\* any call.
C5_TripTypeHasItsField ==
  tool = "searchGoogleFlights" =>
    /\ calls > 0 =>
         /\ Contains(request.url, "&type=1") => Contains(request.url, "&return_date=")
         /\ Contains(request.url, "&type=3") => Contains(request.url, "&multi_city_json=")
    /\ (C2_Missing(params, "1", "return_date") \/ C2_Missing(params, "3", "multi_city_json")) =>
         pc = "returned" /\ IsError(Envelope) /\ calls = 0

C5_Witness ==
  /\ tool = "searchGoogleFlights"
  /\ pc = "awaitFetch"
  /\ calls = 1
  /\ Contains(request.url, "&type=1")
  /\ Contains(request.url, "&return_date=2025-05-25")

\* the header each optional field of fetch_url_content maps to
C6_HeaderOf ==
  [f \in {"apiKey", "generateImageAlt", "cookies", "outputFormat", "proxyUrl",
          "cacheTolerance", "noCache", "targetSelector", "waitForSelector",
          "timeout", "jsonOutput"} |->
    CASE f = "apiKey" -> "Authorization"
      [] f = "generateImageAlt" -> "X-With-Generated-Alt"
      [] f = "cookies" -> "X-Set-Cookie"
      [] f = "outputFormat" -> "X-Respond-With"
      [] f = "proxyUrl" -> "X-Proxy-Url"
      [] f = "cacheTolerance" -> "X-Cache-Tolerance"
      [] f = "noCache" -> "X-No-Cache"
      [] f = "targetSelector" -> "X-Target-Selector"
      [] f = "waitForSelector" -> "X-Wait-For-Selector"
      [] f = "timeout" -> "X-Timeout"
      [] f = "jsonOutput" -> "Accept"]

\* C6 as claimed: the request carries the header of a field if and only if
\* the field is present in the parameters.
C6_HeaderIffPresent ==
  (tool = "fetch_url_content" /\ calls > 0) =>
    \A f \in DOMAIN C6_HeaderOf :
      C6_HeaderOf[f] \in DOMAIN request.headers <=> params[f].t # "undefined"

\* a field the handler takes as given: a number, true, or a non-empty string
C6_Given(x) ==
  \/ x.t = "number"
  \/ x.t = "boolean" /\ x.v
  \/ x.t = "string" /\ x.v # ""

\* C6, amended: the request carries the header of a field if and only if the
\* field is given as true, as a non-empty string or, for cacheTolerance and
\* timeout, as any number (0 included); an absent field, a false flag and an
\* empty string produce no header, and no header other than these and
\* Content-Type is ever set.
C6_HeaderIffGiven ==
  (tool = "fetch_url_content" /\ calls > 0) =>
    /\ \A f \in DOMAIN C6_HeaderOf :
         C6_HeaderOf[f] \in DOMAIN request.headers <=> C6_Given(params[f])
    /\ DOMAIN request.headers \subseteq Range(C6_HeaderOf) \cup {"Content-Type"}

C6_Witness ==
  /\ tool = "fetch_url_content"
  /\ calls = 1
  /\ params.timeout = Num(0)
  /\ params.generateImageAlt = Bool(FALSE)
  /\ DOMAIN request.headers = {"X-Timeout"}
  /\ request.headers["X-Timeout"] = "0"

\* the target URL of the model, and its query-encoded form
C7_Url == "https://a.io/p?q=1&r=2#f"
C7_UrlEncoded == "https%3A%2F%2Fa.io%2Fp%3Fq%3D1%26r%3D2%23f"

\* C7: the request of fetch_url_content is a POST to the base endpoint, with
\* the form Content-Type and a form body whose single field url holds the
\* target URL, if and only if usePostForUrl is true; otherwise it is a GET
\* of the base endpoint followed by the target URL as it was given, with no
\* body and no Content-Type.
C7_PostIffUsePost ==
  (tool = "fetch_url_content" /\ calls > 0) =>
    IF params.usePostForUrl.t = "boolean" /\ params.usePostForUrl.v
    THEN /\ request.method = "POST"
         /\ request.url = "https://r.jina.ai/"
         /\ "Content-Type" \in DOMAIN request.headers
         /\ request.headers["Content-Type"] = "application/x-www-form-urlencoded"
         /\ request.body.t = "URLSearchParams"
         /\ request.body.v = << <<"url", params.url.v>> >>
         /\ ParamsToString(request.body.v) = "url=" \o C7_UrlEncoded
    ELSE /\ request.method = "GET"
         /\ request.url = "https://r.jina.ai/" \o params.url.v
         /\ request.url = "https://r.jina.ai/" \o C7_Url
         /\ request.body.t = "undefined"
         /\ "Content-Type" \notin DOMAIN request.headers

C7_Witness ==
  /\ tool = "fetch_url_content"
  /\ calls = 1
  /\ params.usePostForUrl = Bool(FALSE)
  /\ request.method = "GET"
  /\ request.url = "https://r.jina.ai/https://a.io/p?q=1&r=2#f"

\* C8: when fetch_url_content or search gets a 2xx response and reads its
\* body, the text of the result is that body, character for character, and
\* the result is not error-flagged, whatever jsonOutput / outputFormat ask.
C8_BodyVerbatim ==
  (tool \in {"fetch_url_content", "search"} /\ pc = "returned" /\ Completed /\ Is2xx) =>
    /\ TextIs(body.value)
    /\ "isError" \notin DOMAIN Envelope
    /\ Len(Envelope.content) = 1

C8_Witness ==
  /\ tool = "search"
  /\ pc = "returned"
  /\ Completed /\ Is2xx
  /\ params.outputFormat = Str("json")
  /\ request.headers["Accept"] = "application/json"
  /\ body.value = JsonBody
  /\ TextIs(JsonBody)

\* C9: in every tool, when the response is not 2xx and its body is read, the
\* result is error-flagged and its text contains the status code, the status
\* text and the body.
C9_UpstreamErrorText ==
  (pc = "returned" /\ Completed /\ ~Is2xx) =>
    /\ IsError(Envelope)
    /\ TextHas(IntToStr(Status))
    /\ TextHas(response.value.statusText)
    /\ TextHas(body.value)
    /\ TextHas(IntToStr(Status) \o " " \o response.value.statusText)

C9_Witness ==
  /\ pc = "returned"
  /\ tool = "searchGoogleFlights"
  /\ Completed
  /\ Status = 404
  /\ body.value = "not found"
  /\ IsError(Envelope)
  /\ TextHas("404") /\ TextHas("not found")

\* the message shapes of the three kinds of error
C10_TransportShape ==
  TextStarts(CASE tool = "fetch_url_content" -> "Network error fetching URL: "
                     [] tool = "search" -> "Network error during search: "
                     [] tool = "searchGoogleFlights" -> "Failed to fetch flight data: ")

C10_UpstreamShape ==
  TextStarts(CASE tool = "fetch_url_content" -> "Error fetching URL: "
                     [] tool = "search" -> "Error performing search: "
                     [] tool = "searchGoogleFlights" -> "Error fetching flight data from SerpApi: ")

C10_ValidationShape == TextStarts("Input validation error: ")

\* C10 as claimed: once the call has completed with a response, 2xx or not,
\* the result never has the transport-failure shape.
C10_TransportOnlyWithoutResponse ==
  (pc = "returned" /\ Completed) => ~C10_TransportShape

\* a fault was raised: by fetch, by the read of the body, by the parse of
\* the 2xx body of a flights response, or by JSON.stringify on its value
C10_Fault ==
  \/ response.kind = "throw"
  \/ body.kind = "throw"
  \/ tool = "searchGoogleFlights" /\ Is2xx /\ FlightsFault # Undefined

\* C10, amended: an error-flagged result has the transport-failure shape
\* exactly when a fault was raised by the HTTP call, by the read of the
\* response body or, in searchGoogleFlights, by the parse of a 2xx body as
\* JSON or by JSON.stringify on the parsed value (so also after a response
\* has arrived); without a fault a 2xx
\* response gives the success payload and any other response the
\* upstream-error message; the validation message comes only without a call.
\* No result has two of the three shapes.
C10_TransportIffFault ==
  pc = "returned" =>
    IF calls = 0
    THEN IsError(Envelope) /\ C10_ValidationShape
           /\ ~C10_TransportShape /\ ~C10_UpstreamShape
    ELSE LET fault == C10_Fault
         IN /\ ~C10_ValidationShape
            /\ (IsError(Envelope) /\ C10_TransportShape) <=> fault
            /\ ~(C10_TransportShape /\ C10_UpstreamShape)
            /\ ~fault =>
                 IF Is2xx THEN ~IsError(Envelope)
                 ELSE IsError(Envelope) /\ C10_UpstreamShape

C10_Witness ==
  /\ pc = "returned"
  /\ tool = "searchGoogleFlights"
  /\ Completed /\ Is2xx
  /\ body.value = "not found"
  /\ IsError(Envelope)
  /\ C10_TransportShape

(***************************************************************************)
(* The query of an outbound URL as its receiver reads it: the pairs of     *)
(* application/x-www-form-urlencoded text, decoded.                        *)
(***************************************************************************)
\* the pieces of s between the occurrences of the character c
RECURSIVE SplitAt(_, _, _)
SplitAt(s, at, start) ==
  IF at = {} THEN <<SubSeq(s, start, Len(s))>>
  ELSE LET i == CHOOSE j \in at : \A k \in at : j <= k
       IN <<SubSeq(s, start, i - 1)>> \o SplitAt(s, at \ {i}, i + 1)

SplitOn(s, c) == SplitAt(s, {i \in 1..Len(s) : SubSeq(s, i, i) = c}, 1)

\* the byte %XX stands for at position i of s, or -1
ByteAt(s, i) ==
  IF i + 2 <= Len(s) /\ SubSeq(s, i, i) = "%" /\ IsHex(SubSeq(s, i + 1, i + 1))
       /\ IsHex(SubSeq(s, i + 2, i + 2))
  THEN 16 * HexValue(SubSeq(s, i + 1, i + 1)) + HexValue(SubSeq(s, i + 2, i + 2))
  ELSE 0 - 1

\* "+" is a space and %XX a byte of the UTF-8 encoding of a character
RECURSIVE FormDecode(_)
FormDecode(s) ==
  IF s = "" THEN ""
  ELSE LET c == SubSeq(s, 1, 1)
           b1 == ByteAt(s, 1)
           b2 == ByteAt(s, 4)
       IN IF c = "+" THEN " " \o FormDecode(SubSeq(s, 2, Len(s)))
          ELSE IF b1 >= 0 /\ b1 < 128
               THEN CharOf[b1] \o FormDecode(SubSeq(s, 4, Len(s)))
          ELSE IF b1 >= 192 /\ b1 < 224 /\ b2 >= 128 /\ b2 < 192
               THEN CharOf[(b1 - 192) * 64 + (b2 - 128)] \o FormDecode(SubSeq(s, 7, Len(s)))
          ELSE c \o FormDecode(SubSeq(s, 2, Len(s)))

\* the text after the first "?"
QueryText(url) ==
  LET before == SplitOn(url, "?")[1]
  IN SubSeq(url, Len(before) + 2, Len(url))

\* the <<name, value>> pairs of the query, in order
QueryPairs(url) ==
  LET q == QueryText(url)
      pieces == IF q = "" THEN <<>> ELSE SplitOn(q, "&")
  IN [i \in DOMAIN pieces |->
        LET name == SplitOn(pieces[i], "=")[1]
        IN <<FormDecode(name),
             FormDecode(SubSeq(pieces[i], Len(name) + 2, Len(pieces[i])))>>]

\* the values sent under `name`, in order
QueryValues(url, name) == ParamsGetAll(QueryPairs(url), name)

\* the names the query holds
QueryKeys(url) == {e[1] : e \in Range(QueryPairs(url))}

\* a request of the tool t is in flight or has been answered
Sent(t) == tool = t /\ calls > 0

C11_Scalars == {"provider", "count", "num", "gl", "hl", "location", "page"}

\* C11: in every search request, each of provider, count, num, gl, hl,
\* location and page that the caller supplied is in the query exactly once,
\* under its own name and with its value as text; so count and num are
\* both there when both are supplied, whatever their values in 0..20.
C11_PresentScalarAppendedOnce ==
  Sent("search") =>
    LET pairs == QueryPairs(request.url)
    IN \A f \in C11_Scalars :
         params[f].t # "undefined" =>
           ParamsGetAll(pairs, f) = <<JsString(params[f])>>

C12_Filters == {"ext", "filetype", "intitle", "site", "loc"}

\* C12: in every search request and for each of the filters ext, filetype,
\* intitle, site and loc, the query entries of that name are the elements of
\* the supplied array, as many and in the same order; there is none when the
\* array is absent or empty.
C12_OneEntryPerElement ==
  Sent("search") =>
    LET pairs == QueryPairs(request.url)
    IN \A f \in C12_Filters :
         ParamsGetAll(pairs, f)
           = (IF params[f].t = "undefined" THEN <<>> ELSE params[f].v)

C12_Witness ==
  /\ Sent("search")
  /\ params.ext.t = "object" /\ params.ext.v = <<"pdf", "doc">>
  /\ params.intitle.t = "object" /\ params.intitle.v = <<"b c", "a">>
  /\ QueryValues(request.url, "ext") = <<"pdf", "doc">>
  /\ QueryValues(request.url, "intitle") = <<"b c", "a">>
  /\ QueryValues(request.url, "site") = <<>>

\* C13: every search request has exactly one fallback entry in its query,
\* "true" or "false": the caller's value as text, "true" when the caller
\* gave none; and it has an nfpr entry, the caller's value as text, exactly
\* when the caller supplied nfpr, false included.
C13_FallbackAlwaysNfprIffGiven ==
  Sent("search") =>
    LET pairs == QueryPairs(request.url)
        fallback == ParamsGetAll(pairs, "fallback")
    IN /\ Len(fallback) = 1
       /\ fallback[1] \in {"true", "false"}
       /\ fallback[1] = (IF params.fallback.t = "undefined" THEN "true"
                         ELSE IF params.fallback.v THEN "true" ELSE "false")
       /\ ParamsGetAll(pairs, "nfpr")
            = (IF params.nfpr.t = "undefined" THEN <<>>
               ELSE IF params.nfpr.v THEN <<"true">> ELSE <<"false">>)

C13_Witness ==
  /\ Sent("search")
  /\ params.fallback.t = "undefined"
  /\ params.nfpr.t = "boolean" /\ ~params.nfpr.v
  /\ QueryValues(request.url, "fallback") = <<"true">>
  /\ QueryValues(request.url, "nfpr") = <<"false">>

\* the query name of a field of searchGoogleFlights
C14_KeyOf(f) ==
  CASE f = "flight_type" -> "type"
    [] f = "async_search" -> "async"
    [] OTHER -> f

C14_Present == {f \in Range(flightFields) : params[f].t # "undefined"}

\* C14: in every searchGoogleFlights request, the names in the query are
\* engine, api_key and one name per field the caller supplied: type for
\* flight_type, async for async_search, its own name for any other field.
\* Each name occurs once, engine is google_flights, the value of a field is
\* its text (true/false for a boolean, the digits for a number), and a field
\* the caller left out is not in the query, neither by name nor as the text
\* null or undefined.
C14_QueryIsPresentFields ==
  Sent("searchGoogleFlights") =>
    LET pairs == QueryPairs(request.url)
        keys == {e[1] : e \in Range(pairs)}
    IN /\ keys = {"engine"} \cup {C14_KeyOf(f) : f \in C14_Present}
       /\ Len(pairs) = Cardinality(keys)
       /\ ParamsGetAll(pairs, "engine") = <<"google_flights">>
       /\ \A f \in C14_Present :
            ParamsGetAll(pairs, C14_KeyOf(f)) = <<JsString(params[f])>>
       /\ \A e \in Range(pairs) : e[2] \notin {"null", "undefined"}

C14_Witness ==
  /\ Sent("searchGoogleFlights")
  /\ C14_Present = {"api_key", "flight_type", "async_search", "no_cache"}
  /\ QueryPairs(request.url)
       = << <<"engine", "google_flights">>, <<"api_key", "sk">>, <<"type", "2">>,
            <<"async", "true">>, <<"no_cache", "false">> >>

\* C15: an invocation issues at most one outbound call. While the handler
\* waits and once it has returned, the number of calls issued is one for
\* fetch_url_content, for search and for a searchGoogleFlights invocation
\* whose parameters meet the cross-field rules, and zero for one whose
\* parameters break a rule; so a fault or a non-2xx response is followed by
\* no second call.
C15_AtMostOneCall ==
  /\ calls <= 1
  /\ pc \in {"awaitFetch", "awaitBody"} => calls = 1
  /\ pc \in {"returned", "rejected"} =>
       calls = (IF tool = "searchGoogleFlights" /\ C2_RulesViolated(params) # {}
                THEN 0 ELSE 1)

C15_Witness ==
  /\ pc = "returned"
  /\ tool = "fetch_url_content"
  /\ response.kind = "throw"
  /\ IsError(Envelope)
  /\ calls = 1

\* the invocation ended on a failure path: validation failed, the call or
\* the read of the body raised, the response was not 2xx, or the 2xx body
\* of a flights response was not JSON or JSON.stringify threw on its value
C16_Failed ==
  \/ calls = 0
  \/ response.kind = "throw"
  \/ body.kind = "throw"
  \/ Completed /\ ~Is2xx
  \/ tool = "searchGoogleFlights" /\ Completed /\ Is2xx /\ FlightsFault # Undefined

\* C16: every envelope a tool returns has exactly one content item, of type
\* text and holding a text; isError is true on every failure path, and on
\* the success path the envelope has no isError set to true.
C16_EnvelopeShape ==
  pc = "returned" =>
    /\ result.kind = "return"
    /\ Len(Envelope.content) = 1
    /\ DOMAIN Envelope.content[1] = {"type", "text"}
    /\ Envelope.content[1].type = "text"
    /\ DOMAIN Envelope \subseteq {"content", "isError"}
    /\ IsError(Envelope) <=> C16_Failed

C16_Witness ==
  /\ pc = "returned"
  /\ tool = "searchGoogleFlights"
  /\ Completed /\ Is2xx
  /\ body.value = JsonBody
  /\ stack = "holds"
  /\ Text = Units("{\n  \"1\": \"x\\\"y") \o <<8364>>
              \o Units("\",\n  \"b\": [\n    1.5\n  ]\n}")
  /\ ~C16_Failed
  /\ DOMAIN Envelope = {"content"}
  /\ Len(Envelope.content) = 1

C18_Negative(x) == x.t = "number" /\ x.v < 0

\* C18: a fetch_url_content parameter set whose cacheTolerance or timeout
\* is a negative integer never leads to an outbound request, and no request
\* carries an X-Cache-Tolerance or X-Timeout header whose value is negative.
C18_NegativeNeverSent ==
  (tool = "fetch_url_content" /\ pc # "idle") =>
    /\ (C18_Negative(params.cacheTolerance) \/ C18_Negative(params.timeout)) => calls = 0
    /\ calls > 0 =>
         \A h \in {"X-Cache-Tolerance", "X-Timeout"} \cap DOMAIN request.headers :
           ~StartsWith(request.headers[h], "-")

\* C19 as stated: every search request carries the header Authorization
\* with the value "Bearer " followed by the caller's apiKey, for every
\* apiKey the schema accepts, the empty string included.
C19_AlwaysAuthorized ==
  Sent("search") =>
    /\ "Authorization" \in DOMAIN request.headers
    /\ request.headers["Authorization"] = "Bearer " \o params.apiKey.v

\* C19: a search request carries the header Authorization, with the value
\* "Bearer " followed by the caller's apiKey, exactly when the apiKey is not
\* the empty string; with an empty apiKey the request has no Authorization
\* header.
C19_AuthorizedIffKeyNonEmpty ==
  Sent("search") =>
    IF params.apiKey.v # ""
    THEN /\ "Authorization" \in DOMAIN request.headers
         /\ request.headers["Authorization"] = "Bearer " \o params.apiKey.v
    ELSE "Authorization" \notin DOMAIN request.headers

C19_Witness ==
  /\ Sent("search")
  /\ params.apiKey.v = "k1"
  /\ "Authorization" \in DOMAIN request.headers
  /\ request.headers["Authorization"] = "Bearer k1"

C20_Rejected == pc = "returned" /\ calls = 0

\* C20: a searchGoogleFlights parameter set without flight_type is never
\* rejected for a missing return_date or multi_city_json, whatever its other
\* fields: it is rejected only when it breaks one of the three pair rules,
\* and otherwise its request goes out with no type entry in the query. The
\* return_date rule is reported only when flight_type is the string '1'.
C20_OmittedTypeSkipsTripRules ==
  (tool = "searchGoogleFlights" /\ pc # "idle") =>
    /\ params.flight_type.t = "undefined" =>
         /\ C20_Rejected =>
              /\ ~TextHas(C3_Entry(4))
              /\ ~TextHas(C3_Entry(5))
              /\ \E r \in 1..3 : TextHas(C3_Entry(r))
         /\ ~C20_Rejected => calls = 1 /\ "type" \notin QueryKeys(request.url)
    /\ (C20_Rejected /\ TextHas(C3_Entry(4))) =>
         params.flight_type.t = "string" /\ params.flight_type.v = "1"

C20_Witness ==
  /\ Sent("searchGoogleFlights")
  /\ params.flight_type.t = "undefined"
  /\ params.return_date.t = "undefined"
  /\ params.multi_city_json.t = "undefined"
  /\ params.include_airlines.t = "string"
  /\ "type" \notin QueryKeys(request.url)
  /\ "include_airlines" \in QueryKeys(request.url)

====
